---- MODULE Spec2Model ----
(***************************************************************************)
(* Model of server/services/store/sqlstore/board.go: the versioned board   *)
(* store (boards / boards_history), the membership resolver               *)
(* (board_members / board_members_history plus the channel and team        *)
(* rosters) and the board searches.                                        *)
(*                                                                         *)
(* Tables are modelled as the SQL statements of the source see them:       *)
(*   boards                 a set of rows, primary key id                  *)
(*   boards_history         a sequence of rows in insertion (insert_at)    *)
(*                          order                                          *)
(*   board_members          a set of rows, unique on (board_id, user_id)   *)
(*   board_members_history  a sequence of rows in insertion order          *)
(* insert_at is a column default of the schema; the model takes it to be   *)
(* strictly increasing with every insert, so that the position in the      *)
(* sequence is the insert_at order.                                        *)
(***************************************************************************)
EXTENDS Integers, Sequences, FiniteSets, TLC

VARIABLES
    boards,                 \* table boards: set of rows
    boards_history,         \* table boards_history: sequence of rows
    board_members,          \* table board_members: set of rows
    board_members_history,  \* table board_members_history: sequence of rows
    guests,                 \* users whose IsGuest flag is set (Users table)
    bots,                   \* users that have a row in Bots
    channelMembers,         \* table ChannelMembers: set of <<channelId, userId>>
    teamMembers,            \* table TeamMembers (deleteAt = 0): set of <<teamId, userId>>
    formerTeamMembers,      \* table TeamMembers (deleteAt # 0): set of <<teamId, userId>>
    children,               \* per board: have the child blocks been cascade-deleted
    now,                    \* last value returned by utils.GetMillis()
    last                    \* the last call: operation, arguments, outcome

vars == <<boards, boards_history, board_members, board_members_history,
          guests, bots, channelMembers, teamMembers, formerTeamMembers,
          children, now, last>>

dbvars == <<boards, boards_history, board_members, board_members_history, children>>
rosters == <<guests, bots, channelMembers, teamMembers, formerTeamMembers>>

----------------------------------------------------------------------------
(* Bounds of the model *)

MaxNow == 2
MaxHistory == 3
MaxMemberHistory == 3
MaxTermLen == 3

----------------------------------------------------------------------------
(* Identifier universes *)

BoardIDs == {"b1", "b2"}
SystemUserID == "system"
RealUsers == {"u1", "u2"}
UserIDs == RealUsers \cup {SystemUserID}
GlobalTeamID == "0"
TeamIDs == {"t1", GlobalTeamID}
ChannelIDs == {"c1"}
BoardTypeOpen == "O"
BoardTypePrivate == "P"
BoardTypes == {BoardTypeOpen, BoardTypePrivate}
Titles == {"road", "map"}
MinimumRoles == {"", "editor"}

NoBoard == [id |-> ""]
NotFound == "NotFound"
Ok == "ok"
Pending == "pending"
Failed == "error"

----------------------------------------------------------------------------
(* Row Mapper / Codec *)

\* s.MarshalJSONB: the stored form of a JSON-valued field
MarshalJSONB(v) == <<"json", v>>

\* json.Unmarshal of a stored JSON-valued field
UnmarshalJSON(bytes) == bytes[2]

\* fmt.Sprintf("%x", sha256.Sum256([]byte(title))): one-way, collision free
Sha256Hex(title) == "sha256:" \o title

\* boardsFromRows: one row to one model.Board (the JSON columns decoded)
BoardFromRow(row) ==
    [row EXCEPT !.properties = UnmarshalJSON(@),
                !.cardProperties = UnmarshalJSON(@)]

\* the insertQueryValues map of insertBoard / deleteBoardAndChildren: one
\* model.Board to the column values of one row
RowFromBoard(board) ==
    [board EXCEPT !.properties = MarshalJSONB(@),
                  !.cardProperties = MarshalJSONB(@)]

\* map update m[k] = v of a Go map[string]interface{}
MapSet(m, k, v) ==
    [x \in (DOMAIN m) \cup {k} |-> IF x = k THEN v ELSE m[x]]

EmptyMap == [x \in {} |-> ""]

----------------------------------------------------------------------------
(* Reads of the boards table *)

\* getBoardsFieldsByCondition with sq.Eq{"id": boardID}: the boards of the
\* matching rows (the caller gets NotFound when there is none)
getBoardsByID(tbl, boardID) ==
    {BoardFromRow(r) : r \in {x \in tbl : x.id = boardID}}

\* getBoard: boards[0] of the boards selected by id, NoBoard for NotFound
getBoard(tbl, boardID) ==
    LET found == getBoardsByID(tbl, boardID)
    IN  IF found = {} THEN NoBoard ELSE CHOOSE b \in found : TRUE

\* the rows of boards_history of one board, in insert_at order
HistoryOf(hist, boardID) ==
    SelectSeq(hist, LAMBDA r : r.id = boardID)

Reverse(s) == [i \in 1..Len(s) |-> s[Len(s) + 1 - i]]

Take(s, n) == IF Len(s) <= n THEN s ELSE SubSeq(s, 1, n)

\* getBoardHistory with the bounds of the window included
getBoardHistory_Inclusive(hist, boardID, opts) ==
    LET mine == HistoryOf(hist, boardID)
        inWindow(r) ==
            /\ (opts.beforeUpdateAt # 0 => r.updateAt <= opts.beforeUpdateAt)
            /\ (opts.afterUpdateAt # 0 => r.updateAt >= opts.afterUpdateAt)
        kept == SelectSeq(mine, inWindow)
        ordered == IF opts.descending THEN Reverse(kept) ELSE kept
        limited == IF opts.limit # 0 THEN Take(ordered, opts.limit) ELSE ordered
    IN  [i \in 1..Len(limited) |-> BoardFromRow(limited[i])]

\* getBoardHistory: WHERE id = boardID [AND update_at < before]
\* [AND update_at > after] ORDER BY insert_at, update_at [DESC] [LIMIT n]
getBoardHistory(hist, boardID, opts) ==
    LET mine == HistoryOf(hist, boardID)
        inWindow(r) ==
            /\ (opts.beforeUpdateAt # 0 => r.updateAt < opts.beforeUpdateAt)
            /\ (opts.afterUpdateAt # 0 => r.updateAt > opts.afterUpdateAt)
        kept == SelectSeq(mine, inWindow)
        ordered == IF opts.descending THEN Reverse(kept) ELSE kept
        limited == IF opts.limit # 0 THEN Take(ordered, opts.limit) ELSE ordered
    IN  [i \in 1..Len(limited) |-> BoardFromRow(limited[i])]

\* model.QueryBoardHistoryOptions{Limit: 1, Descending: true}
NewestOpts ==
    [beforeUpdateAt |-> 0, afterUpdateAt |-> 0, limit |-> 1, descending |-> TRUE]

----------------------------------------------------------------------------
(* The record of the last call *)

NoCall ==
    [op |-> "none", id |-> "", user |-> "", res |-> Ok, pre |-> NoBoard,
     cascade |-> "none"]

\* a call of the board store: pre is the live board it found (NoBoard when
\* there was none), cascade the call it made to the children collaborator
Call(op, id, user, res, pre, cascade) ==
    [op |-> op, id |-> id, user |-> user, res |-> res, pre |-> pre,
     cascade |-> cascade]

\* utils.GetMillis(): the clock never runs backwards
Millis == {t \in now..(now + 1) : t <= MaxNow}

----------------------------------------------------------------------------
(* Versioned Board Store *)

\* insertBoard, lines 274-277: the tracking id of a built-in template
WithTrackingID(board) ==
    IF board.isTemplate /\ board.teamID = GlobalTeamID
    THEN [board EXCEPT !.properties =
              MapSet(@, "trackingTemplateId", Sha256Hex(board.title))]
    ELSE board

\* an UPDATE that sets every column of the row from the values
UpdateBoardRow_AllColumns(old, v) ==
    v

\* the UPDATE statement of insertBoard: the columns it sets
UpdateBoardRow(old, v) ==
    [old EXCEPT !.modifiedBy = v.modifiedBy,
                !.type = v.type,
                !.channelID = v.channelID,
                !.minimumRole = v.minimumRole,
                !.title = v.title,
                !.description = v.description,
                !.icon = v.icon,
                !.showDescription = v.showDescription,
                !.isTemplate = v.isTemplate,
                !.templateVersion = v.templateVersion,
                !.properties = v.properties,
                !.cardProperties = v.cardProperties,
                !.updateAt = v.updateAt,
                !.deleteAt = v.deleteAt]

\* insertBoard: the board it returns
insertBoardResult(tbl, input, userID, t) ==
    LET board == [WithTrackingID(input) EXCEPT !.modifiedBy = userID,
                                               !.updateAt = t]
    IN  IF getBoard(tbl, input.id) # NoBoard
        THEN board
        ELSE [board EXCEPT !.createdBy = userID, !.createAt = t]

\* insertBoard: the row it appends to boards_history (insertQueryValues)
insertBoardHistoryRow(tbl, input, userID, t) ==
    RowFromBoard(insertBoardResult(tbl, input, userID, t))

\* insertBoard: the boards table after its UPDATE or INSERT
insertBoardTable(tbl, input, userID, t) ==
    LET values == insertBoardHistoryRow(tbl, input, userID, t)
        old == {r \in tbl : r.id = input.id}
    IN  IF getBoard(tbl, input.id) # NoBoard
        THEN (tbl \ old) \cup {UpdateBoardRow(r, values) : r \in old}
        ELSE tbl \cup {values}

\* insertBoard keeping one snapshot per write of an existing board: the
\* newest row of boards_history is overwritten
insertBoard_OverwriteNewest(input, userID, t) ==
    /\ boards' = insertBoardTable(boards, input, userID, t)
    /\ boards_history' =
           IF getBoard(boards, input.id) # NoBoard /\ boards_history # <<>>
           THEN [boards_history EXCEPT ![Len(boards_history)] =
                    insertBoardHistoryRow(boards, input, userID, t)]
           ELSE Append(boards_history,
                       insertBoardHistoryRow(boards, input, userID, t))

\* insertBoard as a state change
insertBoard(input, userID, t) ==
    /\ boards' = insertBoardTable(boards, input, userID, t)
    /\ boards_history' =
           Append(boards_history, insertBoardHistoryRow(boards, input, userID, t))

\* BoardPatch.Patch: the fields present in the patch override, the others
\* keep the value of the existing board
Patch(patch, board) ==
    [f \in DOMAIN board |-> IF f \in DOMAIN patch THEN patch[f] ELSE board[f]]

\* deleteBoardAndChildren: the snapshot written to boards_history
deleteBoardHistoryRow(board, userID, t) ==
    RowFromBoard([board EXCEPT !.modifiedBy = userID,
                               !.updateAt = t,
                               !.deleteAt = t])

\* deleteBoardAndChildren: DELETE FROM boards WHERE id = boardID AND
\* COALESCE(team_id, '0') = board.TeamID
deleteBoardTable(tbl, boardID, board) ==
    {r \in tbl : ~(r.id = boardID /\ r.teamID = board.teamID)}

\* undeleteBoard: the values written to boards_history and to boards
undeleteBoardRow(board, modifiedBy, t) ==
    RowFromBoard([board EXCEPT !.channelID = "",
                               !.modifiedBy = modifiedBy,
                               !.updateAt = t,
                               !.deleteAt = 0])

\* undeleteIsNoOp without the "board not deleted" return of lines 835-838
undeleteIsNoOp_MissingOnly(snapshots) ==
    Len(snapshots) = 0

\* undeleteBoard, lines 829-838: is the call one that changes nothing
undeleteIsNoOp(snapshots) ==
    \/ Len(snapshots) = 0
    \/ snapshots[1].deleteAt = 0

\* INSERT INTO boards: refused when a row with that primary key exists
CanInsertBoard(tbl, row) == \A r \in tbl : r.id # row.id

----------------------------------------------------------------------------
(* Input boards *)

\* a model.Board as a caller builds it
NewBoard(id, teamID, channelID, type, isTemplate, title, minimumRole, createdBy, createAt, deleteAt, properties) ==
    [id |-> id, teamID |-> teamID, channelID |-> channelID,
     createdBy |-> createdBy, modifiedBy |-> "", type |-> type,
     minimumRole |-> minimumRole, title |-> title, description |-> "",
     icon |-> "", showDescription |-> FALSE, isTemplate |-> isTemplate,
     templateVersion |-> 0, properties |-> properties,
     cardProperties |-> <<>>, createAt |-> createAt, updateAt |-> 0,
     deleteAt |-> deleteAt]

\* the boards the callers of the board store pass in: a private board; a
\* board linked to a channel; a built-in template of the global team whose
\* caller also sets createdBy and createAt; a board whose caller sets
\* deleteAt.  b1 takes each of them, b2 is the board beside it.
InputBoards(id) ==
    IF id = "b1"
    THEN {NewBoard(id, "t1", "", BoardTypePrivate, FALSE, "road", "", "", 0, 0,
                   EmptyMap),
          NewBoard(id, "t1", "c1", BoardTypeOpen, FALSE, "map", "editor", "", 0, 0,
                   MapSet(EmptyMap, "k", "v")),
          NewBoard(id, GlobalTeamID, "", BoardTypeOpen, TRUE, "road", "", "u2", 1, 0,
                   EmptyMap),
          NewBoard(id, "t1", "", BoardTypePrivate, FALSE, "road", "", "", 0, 1,
                   EmptyMap)}
    ELSE {NewBoard(id, "t1", "c1", BoardTypeOpen, FALSE, "map", "editor", "", 0, 0,
                   MapSet(EmptyMap, "k", "v"))}

\* the patches the callers pass in
BoardPatches ==
    {[title |-> "map"],
     [channelID |-> "c1", type |-> BoardTypeOpen, minimumRole |-> "editor",
      properties |-> MapSet(EmptyMap, "k", "v")]}

\* the users that create boards, and the user that changes them afterwards
Creators == {"u1"}
Editors == {"u2"}

----------------------------------------------------------------------------
(* Versioned Board Store: the calls *)

\* insertBoard(board, userID)
InsertBoard(input, userID) ==
    /\ Len(boards_history) < MaxHistory
    /\ \E t \in Millis :
         /\ now' = t
         /\ insertBoard(input, userID, t)
         /\ last' = Call("insertBoard", input.id, userID, Ok, getBoard(boards, input.id),
                         "none")
    /\ UNCHANGED <<board_members, board_members_history, children, rosters>>

\* patchBoard(boardID, boardPatch, userID)
PatchBoard(boardID, patch, userID) ==
    LET existingBoard == getBoard(boards, boardID)
    IN  IF existingBoard = NoBoard
        THEN /\ last' = Call("patchBoard", boardID, userID, NotFound, NoBoard, "none")
             /\ UNCHANGED <<dbvars, rosters, now>>
        ELSE /\ Len(boards_history) < MaxHistory
             /\ \E t \in Millis :
                  /\ now' = t
                  /\ insertBoard(Patch(patch, existingBoard), userID, t)
                  /\ last' = Call("patchBoard", boardID, userID, Ok, existingBoard, "none")
             /\ UNCHANGED <<board_members, board_members_history, children, rosters>>

\* deleteBoardAndChildren with the cascade ahead of the load of the board
DeleteBoard_CascadeFirst(boardID, userID, keepChildren) ==
    LET board == getBoard(boards, boardID)
    IN  IF board = NoBoard
        THEN /\ children' = IF keepChildren THEN children
                            ELSE [children EXCEPT ![boardID] = TRUE]
             /\ last' = Call("deleteBoard", boardID, userID, NotFound, NoBoard,
                             IF keepChildren THEN "none" ELSE "delete")
             /\ UNCHANGED <<boards, boards_history, board_members,
                            board_members_history, rosters, now>>
        ELSE /\ Len(boards_history) < MaxHistory
             /\ \E t \in Millis :
                  /\ now' = t
                  /\ boards_history' =
                         Append(boards_history, deleteBoardHistoryRow(board, userID, t))
             /\ boards' = deleteBoardTable(boards, boardID, board)
             /\ children' = IF keepChildren THEN children
                            ELSE [children EXCEPT ![boardID] = TRUE]
             /\ last' = Call("deleteBoard", boardID, userID, Ok, board,
                             IF keepChildren THEN "none" ELSE "delete")
             /\ UNCHANGED <<board_members, board_members_history, rosters>>

\* deleteBoardAndChildren(boardID, userID, keepChildren)
DeleteBoard(boardID, userID, keepChildren) ==
    LET board == getBoard(boards, boardID)
    IN  IF board = NoBoard
        THEN /\ last' = Call("deleteBoard", boardID, userID, NotFound, NoBoard, "none")
             /\ UNCHANGED <<dbvars, rosters, now>>
        ELSE /\ Len(boards_history) < MaxHistory
             /\ \E t \in Millis :
                  /\ now' = t
                  /\ boards_history' =
                         Append(boards_history, deleteBoardHistoryRow(board, userID, t))
             /\ boards' = deleteBoardTable(boards, boardID, board)
             /\ children' = IF keepChildren THEN children
                            ELSE [children EXCEPT ![boardID] = TRUE]
             /\ last' = Call("deleteBoard", boardID, userID, Ok, board,
                             IF keepChildren THEN "none" ELSE "delete")
             /\ UNCHANGED <<board_members, board_members_history, rosters>>

\* undeleteBoard(boardID, modifiedBy)
UndeleteBoard(boardID, modifiedBy) ==
    LET snapshots == getBoardHistory(boards_history, boardID, NewestOpts)
        pre == getBoard(boards, boardID)
    IN  IF undeleteIsNoOp(snapshots)
        THEN /\ last' = Call("undeleteBoard", boardID, modifiedBy, Ok, pre, "none")
             /\ UNCHANGED <<dbvars, rosters, now>>
        ELSE /\ Len(boards_history) < MaxHistory
             /\ \E t \in Millis :
                  LET row == undeleteBoardRow(snapshots[1], modifiedBy, t)
                  IN  /\ now' = t
                      /\ IF CanInsertBoard(boards, row)
                         THEN /\ boards_history' = Append(boards_history, row)
                              /\ boards' = boards \cup {row}
                              /\ children' = [children EXCEPT ![boardID] = FALSE]
                              /\ last' = Call("undeleteBoard", boardID, modifiedBy, Ok, pre,
                                              "undelete")
                         ELSE \* the history row is written, then the INSERT
                              \* into boards fails on the primary key
                              /\ boards_history' = Append(boards_history, row)
                              /\ UNCHANGED <<boards, children>>
                              /\ last' = Call("undeleteBoard", boardID, modifiedBy,
                                              Failed, pre, "none")
             /\ UNCHANGED <<board_members, board_members_history, rosters>>

----------------------------------------------------------------------------
(* The board store on its own: no memberships, empty rosters *)

InitBoard ==
    /\ boards = {}
    /\ boards_history = <<>>
    /\ board_members = {}
    /\ board_members_history = <<>>
    /\ guests = {}
    /\ bots = {}
    /\ channelMembers = {}
    /\ teamMembers = {}
    /\ formerTeamMembers = {}
    /\ children = [b \in BoardIDs |-> FALSE]
    /\ now = 1
    /\ last = NoCall

NextBoard ==
    \/ \E id \in BoardIDs : \E input \in InputBoards(id) : \E u \in Creators :
          InsertBoard(input, u)
    \/ \E id \in BoardIDs : \E p \in BoardPatches : \E u \in Editors :
          PatchBoard(id, p, u)
    \/ \E id \in BoardIDs : \E u \in Editors : \E k \in BOOLEAN :
          DeleteBoard(id, u, k)
    \/ \E id \in BoardIDs : \E u \in Editors : UndeleteBoard(id, u)

SpecBoard == InitBoard /\ [][NextBoard]_vars

----------------------------------------------------------------------------
(* The board store with the reads of its history *)

\* a getBoardHistory call and the boards it returned
HistoryCall(id, opts, out) ==
    [op |-> "getBoardHistory", id |-> id, user |-> "", res |-> Ok,
     pre |-> NoBoard, cascade |-> "none", opts |-> opts, out |-> out]

\* the model.QueryBoardHistoryOptions the callers pass in: no bound, a
\* bound on a time a snapshot carries, a bound past every snapshot
HistoryOptions ==
    [beforeUpdateAt : {0, 2, 3}, afterUpdateAt : {0, 1}, limit : {0, 2},
     descending : BOOLEAN]

\* the board whose history is read; the snapshots of b2 lie between its own
HistoryBoardIDs == {"b1"}

\* getBoardHistory(boardID, opts)
GetBoardHistory(boardID, opts) ==
    /\ last' = HistoryCall(boardID, opts,
                           getBoardHistory(boards_history, boardID, opts))
    /\ UNCHANGED <<dbvars, rosters, now>>

\* a run of the writes that give a board its snapshots (a patch writes as
\* an insertBoard does, the children play no part), then one read of the
\* history they left
NextHistory ==
    \/ /\ last.op # "getBoardHistory"
       /\ \E id \in BoardIDs : \E input \in InputBoards(id) : \E u \in Creators :
            InsertBoard(input, u)
    \/ /\ last.op # "getBoardHistory"
       /\ \E id \in BoardIDs : \E u \in Editors : DeleteBoard(id, u, TRUE)
    \/ /\ last.op # "getBoardHistory"
       /\ \E id \in BoardIDs : \E u \in Editors : UndeleteBoard(id, u)
    \/ /\ last.op # "getBoardHistory"
       /\ \E id \in HistoryBoardIDs : \E opts \in HistoryOptions :
            GetBoardHistory(id, opts)

SpecHistory == InitBoard /\ [][NextHistory]_vars

----------------------------------------------------------------------------
(* Membership Resolver: reads *)

NoMember == [boardID |-> ""]

\* a row of board_members as saveMember writes it (roles is always "")
MemberRow(boardID, userID, flags) ==
    [boardID |-> boardID, userID |-> userID, roles |-> "",
     schemeAdmin |-> flags.schemeAdmin, schemeEditor |-> flags.schemeEditor,
     schemeCommenter |-> flags.schemeCommenter,
     schemeViewer |-> flags.schemeViewer]

\* the four capability flags of a member
FlagsOf(m) ==
    [schemeAdmin |-> m.schemeAdmin, schemeEditor |-> m.schemeEditor,
     schemeCommenter |-> m.schemeCommenter, schemeViewer |-> m.schemeViewer]

\* boardMembersFromRows over board_members AS BM LEFT JOIN boards AS B ON
\* B.id = BM.board_id: one model.BoardMember per joined row, minimumRole
\* is COALESCE(B.minimum_role, '')
JoinedMembers(tbl, mtbl) ==
    LET member(bm, minimumRole) ==
            [minimumRole |-> minimumRole, boardID |-> bm.boardID,
             userID |-> bm.userID, roles |-> bm.roles,
             schemeAdmin |-> bm.schemeAdmin, schemeEditor |-> bm.schemeEditor,
             schemeCommenter |-> bm.schemeCommenter,
             schemeViewer |-> bm.schemeViewer, synthetic |-> FALSE]
        joined(bm) ==
            LET bs == {b \in tbl : b.id = bm.boardID}
            IN  IF bs = {} THEN {member(bm, "")}
                ELSE {member(bm, b.minimumRole) : b \in bs}
    IN  UNION {joined(bm) : bm \in mtbl}

\* getMemberForBoard, lines 609-618: the synthetic member of a channel member
SyntheticEditor(boardID, userID) ==
    [minimumRole |-> "", boardID |-> boardID, userID |-> userID,
     roles |-> "editor", schemeAdmin |-> FALSE, schemeEditor |-> TRUE,
     schemeCommenter |-> FALSE, schemeViewer |-> FALSE, synthetic |-> TRUE]

\* getMemberForBoard, lines 630-639: the synthetic member of a team member
SyntheticViewer(boardID, userID) ==
    [minimumRole |-> "", boardID |-> boardID, userID |-> userID,
     roles |-> "viewer", schemeAdmin |-> FALSE, schemeEditor |-> FALSE,
     schemeCommenter |-> FALSE, schemeViewer |-> TRUE, synthetic |-> TRUE]

\* synthesizedMember without the guest return of lines 586-588
synthesizedMember_NoGuestCheck(tbl, boardID, userID) ==
    IF userID = SystemUserID THEN NoMember
    ELSE LET b == getBoard(tbl, boardID)
         IN  IF b = NoBoard THEN NoMember
             ELSE IF b.channelID # ""
             THEN IF <<b.channelID, userID>> \in channelMembers
                  THEN SyntheticEditor(boardID, userID)
                  ELSE NoMember
             ELSE IF b.type = BoardTypeOpen /\ b.isTemplate
             THEN IF <<b.teamID, userID>> \in teamMembers
                  THEN SyntheticViewer(boardID, userID)
                  ELSE NoMember
             ELSE NoMember

\* synthesizedMember that goes on to the team rule when the user is not in
\* the linked channel, instead of the return of lines 598-604
synthesizedMember_TeamFallback(tbl, boardID, userID) ==
    IF userID = SystemUserID THEN NoMember
    ELSE IF userID \in guests THEN NoMember
    ELSE LET b == getBoard(tbl, boardID)
         IN  IF b = NoBoard THEN NoMember
             ELSE IF b.channelID # "" /\ <<b.channelID, userID>> \in channelMembers
             THEN SyntheticEditor(boardID, userID)
             ELSE IF b.type = BoardTypeOpen /\ b.isTemplate
             THEN IF <<b.teamID, userID>> \in teamMembers
                  THEN SyntheticViewer(boardID, userID)
                  ELSE NoMember
             ELSE NoMember

\* synthesizedMember with line 620 testing the board type alone
synthesizedMember_AnyOpenBoard(tbl, boardID, userID) ==
    IF userID = SystemUserID THEN NoMember
    ELSE IF userID \in guests THEN NoMember
    ELSE LET b == getBoard(tbl, boardID)
         IN  IF b = NoBoard THEN NoMember
             ELSE IF b.channelID # ""
             THEN IF <<b.channelID, userID>> \in channelMembers
                  THEN SyntheticEditor(boardID, userID)
                  ELSE NoMember
             ELSE IF b.type = BoardTypeOpen
             THEN IF <<b.teamID, userID>> \in teamMembers
                  THEN SyntheticViewer(boardID, userID)
                  ELSE NoMember
             ELSE NoMember

\* getMemberForBoard, lines 576-642: the answer when board_members has no
\* row for (boardID, userID); NoMember is the NotFound error
synthesizedMember(tbl, boardID, userID) ==
    IF userID = SystemUserID THEN NoMember
    ELSE IF userID \in guests THEN NoMember
    ELSE LET b == getBoard(tbl, boardID)
         IN  IF b = NoBoard THEN NoMember
             ELSE IF b.channelID # ""
             THEN IF <<b.channelID, userID>> \in channelMembers
                  THEN SyntheticEditor(boardID, userID)
                  ELSE NoMember
             ELSE IF b.type = BoardTypeOpen /\ b.isTemplate
             THEN IF <<b.teamID, userID>> \in teamMembers
                  THEN SyntheticViewer(boardID, userID)
                  ELSE NoMember
             ELSE NoMember

\* getMemberForBoard that consults the rosters before board_members
getMemberForBoard_RostersFirst(tbl, mtbl, boardID, userID) ==
    LET members == {m \in JoinedMembers(tbl, mtbl) :
                       m.boardID = boardID /\ m.userID = userID}
        synthesized == synthesizedMember(tbl, boardID, userID)
    IN  IF synthesized # NoMember \/ members = {}
        THEN synthesized
        ELSE CHOOSE m \in members : TRUE

\* getMemberForBoard
getMemberForBoard(tbl, mtbl, boardID, userID) ==
    LET members == {m \in JoinedMembers(tbl, mtbl) :
                       m.boardID = boardID /\ m.userID = userID}
    IN  IF members = {}
        THEN synthesizedMember(tbl, boardID, userID)
        ELSE CHOOSE m \in members : TRUE

\* the rows of a query result in the order the database returns them
RECURSIVE RowsOf(_)
RowsOf(S) ==
    IF S = {} THEN <<>>
    ELSE LET r == CHOOSE x \in S : TRUE IN <<r>> \o RowsOf(S \ {r})

\* implicitBoardMembershipsFromRows: one synthetic editor per row
\* (CM.userID, B.Id); the other fields keep their zero value
implicitBoardMembershipsFromRows(rows) ==
    [i \in 1..Len(rows) |-> SyntheticEditor(rows[i][2], rows[i][1])]

\* getMembersForUser without the existingMembers test of line 723
getMembersForUser_NoDedup(tbl, mtbl, userID) ==
    LET explicitMembers ==
            RowsOf({m \in JoinedMembers(tbl, mtbl) : m.userID = userID})
        implicitRows ==
            RowsOf({<<cm[2], b.id>> : <<cm, b>> \in
                      {x \in channelMembers \X tbl :
                          x[2].channelID = x[1][1] /\ x[1][2] = userID}})
    IN  IF userID \in guests THEN explicitMembers
        ELSE explicitMembers \o implicitBoardMembershipsFromRows(implicitRows)

\* getMembersForUser without the guest return of lines 694-696
getMembersForUser_GuestsToo(tbl, mtbl, userID) ==
    LET explicitMembers ==
            RowsOf({m \in JoinedMembers(tbl, mtbl) : m.userID = userID})
        implicitRows ==
            RowsOf({<<cm[2], b.id>> : <<cm, b>> \in
                      {x \in channelMembers \X tbl :
                          x[2].channelID = x[1][1] /\ x[1][2] = userID}})
        existingMembers == {explicitMembers[i].boardID : i \in DOMAIN explicitMembers}
        implicitMembers == implicitBoardMembershipsFromRows(implicitRows)
    IN  explicitMembers \o
        SelectSeq(implicitMembers, LAMBDA m : m.boardID \notin existingMembers)

\* getMembersForUser
getMembersForUser(tbl, mtbl, userID) ==
    LET explicitMembers ==
            RowsOf({m \in JoinedMembers(tbl, mtbl) : m.userID = userID})
        implicitRows ==
            RowsOf({<<cm[2], b.id>> : <<cm, b>> \in
                      {x \in channelMembers \X tbl :
                          x[2].channelID = x[1][1] /\ x[1][2] = userID}})
        existingMembers == {explicitMembers[i].boardID : i \in DOMAIN explicitMembers}
        implicitMembers == implicitBoardMembershipsFromRows(implicitRows)
    IN  IF userID \in guests THEN explicitMembers
        ELSE explicitMembers \o
             SelectSeq(implicitMembers, LAMBDA m : m.boardID \notin existingMembers)

\* getMembersForBoard without the Bots join of lines 756 and 761
getMembersForBoard_WithBots(tbl, mtbl, boardID) ==
    LET explicitMembers ==
            RowsOf({m \in JoinedMembers(tbl, mtbl) : m.boardID = boardID})
        implicitRows ==
            RowsOf({<<cm[2], b.id>> : <<cm, b>> \in
                      {x \in channelMembers \X tbl :
                          /\ x[2].channelID = x[1][1]
                          /\ x[2].id = boardID
                          /\ x[2].channelID # ""
                          /\ x[1][2] \notin guests}})
        existingMembers == {explicitMembers[i].userID : i \in DOMAIN explicitMembers}
        implicitMembers == implicitBoardMembershipsFromRows(implicitRows)
    IN  explicitMembers \o
        SelectSeq(implicitMembers, LAMBDA m : m.userID \notin existingMembers)

\* getMembersForBoard
getMembersForBoard(tbl, mtbl, boardID) ==
    LET explicitMembers ==
            RowsOf({m \in JoinedMembers(tbl, mtbl) : m.boardID = boardID})
        implicitRows ==
            RowsOf({<<cm[2], b.id>> : <<cm, b>> \in
                      {x \in channelMembers \X tbl :
                          /\ x[2].channelID = x[1][1]
                          /\ x[2].id = boardID
                          /\ x[2].channelID # ""
                          /\ x[1][2] \notin guests
                          /\ x[1][2] \notin bots}})
        existingMembers == {explicitMembers[i].userID : i \in DOMAIN explicitMembers}
        implicitMembers == implicitBoardMembershipsFromRows(implicitRows)
    IN  explicitMembers \o
        SelectSeq(implicitMembers, LAMBDA m : m.userID \notin existingMembers)

----------------------------------------------------------------------------
(* Membership Resolver: writes *)

\* the INSERT ... ON CONFLICT (board_id, user_id) DO UPDATE SET scheme_* of
\* saveMember: a new row, or the four flags of the existing row overwritten
upsertMember(mtbl, boardID, userID, flags) ==
    LET old == {r \in mtbl : r.boardID = boardID /\ r.userID = userID}
    IN  IF old = {}
        THEN mtbl \cup {MemberRow(boardID, userID, flags)}
        ELSE (mtbl \ old) \cup
             {[r EXCEPT !.schemeAdmin = flags.schemeAdmin,
                        !.schemeEditor = flags.schemeEditor,
                        !.schemeCommenter = flags.schemeCommenter,
                        !.schemeViewer = flags.schemeViewer] : r \in old}

MemberHistoryEntry(boardID, userID, action) ==
    [boardID |-> boardID, userID |-> userID, action |-> action]

\* saveMember, lines 487-521: board_members_history after the call
saveMemberHistory(tbl, mtbl, hist, boardID, userID) ==
    LET oldMember == getMemberForBoard(tbl, mtbl, boardID, userID)
    IN  IF oldMember = NoMember
        THEN Append(hist, MemberHistoryEntry(boardID, userID, "created"))
        ELSE hist

\* deleteMember, lines 527-535: DELETE FROM board_members WHERE board_id = ?
\* AND user_id = ?
deleteMemberTable(mtbl, boardID, userID) ==
    {r \in mtbl : ~(r.boardID = boardID /\ r.userID = userID)}

\* deleteMemberHistory without the rowsAffected test of line 542
deleteMemberHistory_Always(mtbl, hist, boardID, userID) ==
    Append(hist, MemberHistoryEntry(boardID, userID, "deleted"))

\* deleteMember, lines 537-551: board_members_history after the call
deleteMemberHistory(mtbl, hist, boardID, userID) ==
    LET rowsAffected == Cardinality(mtbl \ deleteMemberTable(mtbl, boardID, userID))
    IN  IF rowsAffected > 0
        THEN Append(hist, MemberHistoryEntry(boardID, userID, "deleted"))
        ELSE hist

\* does board_members hold a row of the pair
HasStoredRow(mtbl, boardID, userID) ==
    \E r \in mtbl : r.boardID = boardID /\ r.userID = userID

\* the stored row of a pair, NoMember when board_members has none
StoredRow(mtbl, boardID, userID) ==
    LET rows == {r \in mtbl : r.boardID = boardID /\ r.userID = userID}
    IN  IF rows = {} THEN NoMember ELSE CHOOSE r \in rows : TRUE

\* a call of the membership resolver: pre is the stored row a read found,
\* flags the capability flags passed in, out what a read returned
MemberCall(op, id, user, res, pre, flags, out) ==
    [op |-> op, id |-> id, user |-> user, res |-> res, pre |-> pre,
     flags |-> flags, out |-> out]

NoFlags ==
    [schemeAdmin |-> FALSE, schemeEditor |-> FALSE, schemeCommenter |-> FALSE,
     schemeViewer |-> FALSE]

\* the capability flags the callers of saveMember pass in: those of
\* insertBoardWithAdmin (lines 461-466) and those of a viewer
AdminFlags == [NoFlags EXCEPT !.schemeAdmin = TRUE, !.schemeEditor = TRUE]
ViewerFlags == [NoFlags EXCEPT !.schemeViewer = TRUE]
InputFlags == {AdminFlags, ViewerFlags}

\* saveMember(bm)
SaveMember(boardID, userID, flags) ==
    /\ Len(saveMemberHistory(boards, board_members, board_members_history,
                             boardID, userID)) <= MaxMemberHistory
    /\ board_members' = upsertMember(board_members, boardID, userID, flags)
    /\ board_members_history' =
           saveMemberHistory(boards, board_members, board_members_history,
                             boardID, userID)
    /\ last' = MemberCall("saveMember", boardID, userID, Ok, NoMember, flags,
                          NoMember)
    /\ UNCHANGED <<boards, boards_history, children, rosters, now>>

\* deleteMember(boardID, userID)
DeleteMember(boardID, userID) ==
    /\ Len(deleteMemberHistory(board_members, board_members_history,
                               boardID, userID)) <= MaxMemberHistory
    /\ board_members' = deleteMemberTable(board_members, boardID, userID)
    /\ board_members_history' =
           deleteMemberHistory(board_members, board_members_history,
                               boardID, userID)
    /\ last' = MemberCall("deleteMember", boardID, userID, Ok, NoMember, NoFlags,
                          NoMember)
    /\ UNCHANGED <<boards, boards_history, children, rosters, now>>

----------------------------------------------------------------------------
(* Membership Resolver: the read calls *)

\* getMemberForBoard(boardID, userID)
GetMemberForBoard(boardID, userID) ==
    LET out == getMemberForBoard(boards, board_members, boardID, userID)
    IN  /\ last' = MemberCall("getMemberForBoard", boardID, userID,
                              IF out = NoMember THEN NotFound ELSE Ok,
                              StoredRow(board_members, boardID, userID), NoFlags,
                              out)
        /\ UNCHANGED <<dbvars, rosters, now>>

\* getMembersForUser(userID)
GetMembersForUser(userID) ==
    /\ last' = MemberCall("getMembersForUser", "", userID, Ok, NoMember, NoFlags,
                          getMembersForUser(boards, board_members, userID))
    /\ UNCHANGED <<dbvars, rosters, now>>

\* getMembersForBoard(boardID)
GetMembersForBoard(boardID) ==
    /\ last' = MemberCall("getMembersForBoard", boardID, "", Ok, NoMember, NoFlags,
                          getMembersForBoard(boards, board_members, boardID))
    /\ UNCHANGED <<dbvars, rosters, now>>

----------------------------------------------------------------------------
(* The states the membership resolver is called in *)

\* the boards whose membership is resolved: with or without a linked
\* channel, open or private, template or not
ResolverInputs(id) ==
    {NewBoard(id, "t1", c, ty, tmpl, "road", "", "", 0, 0, EmptyMap) :
        c \in {""} \cup ChannelIDs, ty \in BoardTypes, tmpl \in BOOLEAN}

\* b1 is any of them; b2, the board beside it, is linked to the channel, or
\* is an open template without a channel
ResolverBoards ==
    [id \in BoardIDs |->
        IF id = "b1" THEN ResolverInputs(id)
        ELSE {b \in ResolverInputs(id) :
                \/ b.channelID # "" /\ b.type = BoardTypePrivate /\ ~b.isTemplate
                \/ b.channelID = "" /\ b.type = BoardTypeOpen /\ b.isTemplate}]

\* the boards table after u1 has created the given boards at time 1
CreatedBoards(inputs) ==
    {insertBoardHistoryRow({}, input, "u1", 1) : input \in inputs}

\* the flags of the stored rows the resolver starts with
InitFlags(userID) == IF userID = "u1" THEN AdminFlags ELSE ViewerFlags

\* board tables, membership tables and rosters as the program can have
\* left them: each board of live created or not, each pair of pairs with a
\* stored row or not, the guests one of guestSets, the bots one of botSets,
\* the team roster one of teamRosters, the channel roster any set of real
\* users
InitTables(live, pairs, guestSets, botSets, teamRosters) ==
    /\ \E present \in SUBSET BoardIDs :
       \E choice \in [present -> UNION {live[id] : id \in BoardIDs}] :
         /\ \A id \in present : choice[id] \in live[id]
         /\ boards = CreatedBoards({choice[id] : id \in present})
         /\ boards_history = RowsOf(boards)
    /\ \E stored \in SUBSET pairs :
         /\ board_members =
               {MemberRow(p[1], p[2], InitFlags(p[2])) : p \in stored}
         /\ board_members_history =
               RowsOf({MemberHistoryEntry(p[1], p[2], "created") : p \in stored})
    /\ guests \in guestSets
    /\ bots \in botSets
    /\ channelMembers \in SUBSET (ChannelIDs \X RealUsers)
    /\ teamMembers \in teamRosters
    /\ formerTeamMembers = {}
    /\ children = [b \in BoardIDs |-> FALSE]
    /\ now = 1
    /\ last = NoCall

InitResolve ==
    InitTables(ResolverBoards, BoardIDs \X RealUsers, SUBSET RealUsers,
               {{}, {"u2"}}, SUBSET ({"t1"} \X RealUsers))

\* the reads leave every table alone, so each is taken once from every
\* state of the tables
NextResolve ==
    \/ \E b \in BoardIDs : \E u \in UserIDs :
          last = NoCall /\ GetMemberForBoard(b, u)
    \/ \E u \in RealUsers : last = NoCall /\ GetMembersForUser(u)
    \/ \E b \in BoardIDs : last = NoCall /\ GetMembersForBoard(b)

SpecResolve == InitResolve /\ [][NextResolve]_vars

\* the boards the role reads start from: with or without a linked channel,
\* open or private, with either minimum role
RoleInputs(id) ==
    {NewBoard(id, "t1", c, ty, FALSE, "road", role, "", 0, 0, EmptyMap) :
        c \in {"", "c1"}, ty \in BoardTypes, role \in MinimumRoles}

RoleBoards == [id \in BoardIDs |-> RoleInputs(id)]

InitRole ==
    InitTables(RoleBoards, {"b1"} \X RealUsers, {{}, {"u2"}}, {{}},
               {{}, {"t1"} \X RealUsers})

\* the three reads, each taken once from every state of the tables
SpecRole == InitRole /\ [][NextResolve]_vars

----------------------------------------------------------------------------
(* The membership writes: no stored row at the start, boards and rosters as
   the program can have left them *)

\* b1 is private, or linked to the channel, or an open template; b2, the
\* board beside it, is linked to the channel
MemberBoards ==
    [id \in BoardIDs |->
        {b \in ResolverInputs(id) :
            \/ b.channelID # "" /\ b.type = BoardTypePrivate /\ ~b.isTemplate
            \/ id = "b1" /\ b.channelID = "" /\ b.type = BoardTypePrivate /\ ~b.isTemplate
            \/ id = "b1" /\ b.channelID = "" /\ b.type = BoardTypeOpen /\ b.isTemplate}]

\* u2 is a guest or not; the team has no member or every real user
InitMember ==
    InitTables(MemberBoards, {}, {{}, {"u2"}}, {{}}, {{}, {"t1"} \X RealUsers})

\* the pairs whose membership is written
WritePairs == ({"b1"} \X RealUsers) \cup {<<"b2", "u1">>}

NextMember ==
    \/ \E p \in WritePairs : \E f \in InputFlags : SaveMember(p[1], p[2], f)
    \/ \E p \in WritePairs : DeleteMember(p[1], p[2])

SpecMember == InitMember /\ [][NextMember]_vars

----------------------------------------------------------------------------
(* Boards created with their admin, and the membership writes after *)

\* insertBoardWithAdmin(board, userID): insertBoard, then saveMember of
\* (newBoard.ID, newBoard.CreatedBy) as admin and editor, which looks the
\* member up in the tables insertBoard has left
InsertBoardWithAdmin(input, userID) ==
    /\ Len(boards_history) < MaxHistory
    /\ \E t \in Millis :
         LET newBoard == insertBoardResult(boards, input, userID, t)
             tbl == insertBoardTable(boards, input, userID, t)
             hist == saveMemberHistory(tbl, board_members, board_members_history,
                                       newBoard.id, newBoard.createdBy)
         IN  /\ Len(hist) <= MaxMemberHistory
             /\ now' = t
             /\ insertBoard(input, userID, t)
             /\ board_members' = upsertMember(board_members, newBoard.id,
                                              newBoard.createdBy, AdminFlags)
             /\ board_members_history' = hist
             /\ last' = MemberCall("insertBoardWithAdmin", newBoard.id,
                                   newBoard.createdBy, Ok, NoMember, AdminFlags,
                                   NoMember)
    /\ UNCHANGED <<children, rosters>>

\* the boards created with an admin: b1, private or linked to the channel
AdminBoards ==
    {b \in InputBoards("b1") : b.teamID = "t1" /\ b.deleteAt = 0}

\* empty tables; the channel has any of the real users
InitAdmin ==
    /\ boards = {}
    /\ boards_history = <<>>
    /\ board_members = {}
    /\ board_members_history = <<>>
    /\ guests = {}
    /\ bots = {}
    /\ channelMembers \in SUBSET (ChannelIDs \X RealUsers)
    /\ teamMembers = {}
    /\ formerTeamMembers = {}
    /\ children = [b \in BoardIDs |-> FALSE]
    /\ now = 1
    /\ last = NoCall

NextAdmin ==
    \/ \E input \in AdminBoards : \E u \in RealUsers :
          InsertBoardWithAdmin(input, u)
    \/ \E u \in RealUsers : \E f \in InputFlags : SaveMember("b1", u, f)
    \/ \E u \in RealUsers : DeleteMember("b1", u)

SpecAdmin == InitAdmin /\ [][NextAdmin]_vars

----------------------------------------------------------------------------
(* Two saveMember calls for one pair, statement by statement *)

Callers == {1, 2}

\* two saveMember calls on their way: step counts the statements a call
\* has done, old tells whether its getMemberForBoard found a member
SaveCalls(id, user, calls) ==
    [op |-> "saveMember", id |-> id, user |-> user, res |-> Pending,
     calls |-> calls]

\* both callers enter saveMember for the pair, one as admin, one as viewer
SaveMemberEnter(boardID, userID) ==
    /\ last = NoCall
    /\ ~HasStoredRow(board_members, boardID, userID)
    /\ last' = SaveCalls(boardID, userID,
                         [c \in Callers |->
                             [step |-> 0, old |-> FALSE,
                              flags |-> IF c = 1 THEN AdminFlags ELSE ViewerFlags]])
    /\ UNCHANGED <<dbvars, rosters, now>>

\* line 487: oldMember, err := s.getMemberForBoard(db, bm.BoardID, bm.UserID)
SaveMemberLookup(c) ==
    /\ last.res = Pending
    /\ last.op = "saveMember"
    /\ last.calls[c].step = 0
    /\ last' = [last EXCEPT
                  !.calls[c].step = 1,
                  !.calls[c].old =
                      getMemberForBoard(boards, board_members, last.id, last.user)
                          # NoMember]
    /\ UNCHANGED <<dbvars, rosters, now>>

\* lines 492-510: the INSERT ... ON CONFLICT DO UPDATE
SaveMemberUpsert(c) ==
    /\ last.res = Pending
    /\ last.op = "saveMember"
    /\ last.calls[c].step = 1
    /\ board_members' =
           upsertMember(board_members, last.id, last.user, last.calls[c].flags)
    /\ last' = [last EXCEPT !.calls[c].step = 2]
    /\ UNCHANGED <<boards, boards_history, board_members_history, children,
                   rosters, now>>

\* lines 512-521: the "created" entry when oldMember was nil, and the return
SaveMemberHistory(c) ==
    /\ last.res = Pending
    /\ last.op = "saveMember"
    /\ last.calls[c].step = 2
    /\ board_members_history' =
           IF last.calls[c].old THEN board_members_history
           ELSE Append(board_members_history,
                       MemberHistoryEntry(last.id, last.user, "created"))
    /\ last' = [last EXCEPT !.calls[c].step = 3]
    /\ UNCHANGED <<boards, boards_history, board_members, children, rosters, now>>

\* no stored row; boards and rosters as for the membership writes
InitSave == InitMember

NextSave ==
    \/ \E u \in RealUsers : SaveMemberEnter("b1", u)
    \/ \E c \in Callers : SaveMemberLookup(c)
    \/ \E c \in Callers : SaveMemberUpsert(c)
    \/ \E c \in Callers : SaveMemberHistory(c)

SpecSave == InitSave /\ [][NextSave]_vars

----------------------------------------------------------------------------
(* deleteBoardAndChildren statement by statement *)

\* the two statements in the other order: the row removed first
deleteStatements_RowFirst == <<"DELETE boards", "INSERT boards_history">>

\* deleteBoardAndChildren, lines 430-446: its statements in program order
deleteStatements == <<"INSERT boards_history", "DELETE boards">>

\* a deleteBoardAndChildren call on its way: pre is the board it loaded,
\* hist the boards_history it started from, step the statements done
DeleteCall(id, user, res, pre, keepChildren, hist, step, cascade) ==
    [op |-> "deleteBoard", id |-> id, user |-> user, res |-> res, pre |-> pre,
     keepChildren |-> keepChildren, hist |-> hist, step |-> step,
     cascade |-> cascade]

\* lines 393-398: the clock is read and the board loaded
DeleteBoardLoad(boardID, userID, keepChildren) ==
    /\ last.res # Pending
    /\ \E t \in Millis :
         /\ now' = t
         /\ last' = DeleteCall(boardID, userID,
                               IF getBoard(boards, boardID) = NoBoard
                               THEN NotFound ELSE Pending,
                               getBoard(boards, boardID), keepChildren,
                               boards_history, 0, "none")
    /\ UNCHANGED <<dbvars, rosters>>

\* lines 430-452: the next statement of the call, then the cascade and the
\* return
DeleteBoardStatement ==
    /\ last.op = "deleteBoard"
    /\ last.res = Pending
    /\ LET statement == deleteStatements[last.step + 1]
           done == last.step + 1 = Len(deleteStatements)
       IN  /\ IF statement = "INSERT boards_history"
              THEN /\ boards_history' =
                         Append(boards_history,
                                deleteBoardHistoryRow(last.pre, last.user, now))
                   /\ UNCHANGED boards
              ELSE /\ boards' = deleteBoardTable(boards, last.id, last.pre)
                   /\ UNCHANGED boards_history
           /\ children' = IF done /\ ~last.keepChildren
                          THEN [children EXCEPT ![last.id] = TRUE]
                          ELSE children
           /\ last' = [last EXCEPT
                         !.step = @ + 1,
                         !.res = IF done THEN Ok ELSE Pending,
                         !.cascade = IF done /\ ~last.keepChildren
                                     THEN "delete" ELSE "none"]
    /\ UNCHANGED <<board_members, board_members_history, rosters, now>>

\* the boards a delete finds: each of b1 and b2 live or not
InitDelete ==
    /\ \E present \in SUBSET BoardIDs :
       \E choice \in [present -> UNION {InputBoards(id) : id \in BoardIDs}] :
       \E t \in 1..MaxNow :
         /\ \A id \in present : choice[id] \in InputBoards(id)
         /\ boards = {insertBoardHistoryRow({}, choice[id], "u1", t) : id \in present}
         /\ boards_history = RowsOf(boards)
         /\ now = t
    /\ board_members = {}
    /\ board_members_history = <<>>
    /\ guests = {}
    /\ bots = {}
    /\ channelMembers = {}
    /\ teamMembers = {}
    /\ formerTeamMembers = {}
    /\ children = [b \in BoardIDs |-> FALSE]
    /\ last = NoCall

NextDelete ==
    \/ \E id \in BoardIDs : \E u \in RealUsers : \E k \in BOOLEAN :
          DeleteBoardLoad(id, u, k)
    \/ DeleteBoardStatement

SpecDelete == InitDelete /\ [][NextDelete]_vars

----------------------------------------------------------------------------
(* An insertBoard and a deleteBoardAndChildren of one board, statement by
   statement *)

\* the two calls on their way: ins and del count the statements each has
\* done; seen is the boards table as insertBoard's getBoard saw it, pre the
\* board deleteBoardAndChildren loaded, insAt and delAt the clock readings
RaceCalls(id, input, insUser, delUser, keepChildren) ==
    [op |-> "insertBoard, deleteBoard", id |-> id, res |-> Pending,
     input |-> input, insUser |-> insUser, delUser |-> delUser,
     keepChildren |-> keepChildren, ins |-> 0, del |-> 0, seen |-> {},
     pre |-> NoBoard, insAt |-> 0, delAt |-> 0]

\* the boards an insertBoard is called with on an existing board: those of
\* the callers whose deleteAt is 0, and those patchBoard builds from the
\* board it loaded (lines 379-385)
RaceInputs(tbl, id) ==
    {b \in InputBoards(id) : b.deleteAt = 0}
        \cup {Patch(p, getBoard(tbl, id)) : p \in BoardPatches}

\* both calls are made on a live board
RaceEnter(boardID, keepChildren) ==
    /\ last = NoCall
    /\ getBoard(boards, boardID) # NoBoard
    /\ \E input \in RaceInputs(boards, boardID) :
         last' = RaceCalls(boardID, input, "u1", "u2", keepChildren)
    /\ UNCHANGED <<dbvars, rosters, now>>

\* insertBoard, lines 301-311: getBoard, then the clock
InsertBoardLoad ==
    /\ last.res = Pending
    /\ last.op = "insertBoard, deleteBoard"
    /\ last.ins = 0
    /\ \E t \in Millis :
         /\ now' = t
         /\ last' = [last EXCEPT !.ins = 1, !.seen = boards, !.insAt = t]
    /\ UNCHANGED <<dbvars, rosters>>

\* insertBoard, lines 334-366: the UPDATE of the rows with the id when it
\* had found the board, the INSERT when it had not
InsertBoardWrite ==
    /\ last.res = Pending
    /\ last.op = "insertBoard, deleteBoard"
    /\ last.ins = 1
    /\ LET values == insertBoardHistoryRow(last.seen, last.input, last.insUser,
                                           last.insAt)
       IN  IF getBoard(last.seen, last.id) # NoBoard
           THEN boards' = {IF r.id = last.id THEN UpdateBoardRow(r, values) ELSE r :
                              r \in boards}
           ELSE /\ CanInsertBoard(boards, values)
                /\ boards' = boards \cup {values}
    /\ last' = [last EXCEPT !.ins = 2]
    /\ UNCHANGED <<boards_history, board_members, board_members_history, children,
                   rosters, now>>

\* insertBoard, lines 368-375: the snapshot and the return
InsertBoardHistory ==
    /\ last.res = Pending
    /\ last.op = "insertBoard, deleteBoard"
    /\ last.ins = 2
    /\ boards_history' =
           Append(boards_history,
                  insertBoardHistoryRow(last.seen, last.input, last.insUser,
                                        last.insAt))
    /\ last' = [last EXCEPT !.ins = 3]
    /\ UNCHANGED <<boards, board_members, board_members_history, children,
                   rosters, now>>

\* deleteBoardAndChildren, lines 393-398: the clock, then getBoard; NotFound
\* ends the call
RaceDeleteLoad ==
    /\ last.res = Pending
    /\ last.op = "insertBoard, deleteBoard"
    /\ last.del = 0
    /\ \E t \in Millis :
         /\ now' = t
         /\ last' = [last EXCEPT
                       !.del = IF getBoard(boards, last.id) = NoBoard
                               THEN Len(deleteStatements) + 1 ELSE 1,
                       !.pre = getBoard(boards, last.id),
                       !.delAt = t]
    /\ UNCHANGED <<dbvars, rosters>>

\* deleteBoardAndChildren, lines 430-452: its next statement; after the
\* last one the cascade and the return
RaceDeleteStatement ==
    /\ last.res = Pending
    /\ last.op = "insertBoard, deleteBoard"
    /\ last.del \in 1..Len(deleteStatements)
    /\ LET statement == deleteStatements[last.del]
           done == last.del = Len(deleteStatements)
       IN  /\ IF statement = "INSERT boards_history"
              THEN /\ boards_history' =
                         Append(boards_history,
                                deleteBoardHistoryRow(last.pre, last.delUser,
                                                      last.delAt))
                   /\ UNCHANGED boards
              ELSE /\ boards' = deleteBoardTable(boards, last.id, last.pre)
                   /\ UNCHANGED boards_history
           /\ children' = IF done /\ ~last.keepChildren
                          THEN [children EXCEPT ![last.id] = TRUE]
                          ELSE children
    /\ last' = [last EXCEPT !.del = @ + 1]
    /\ UNCHANGED <<board_members, board_members_history, rosters, now>>

InitRace == InitDelete

NextRace ==
    \/ \E k \in BOOLEAN : RaceEnter("b1", k)
    \/ InsertBoardLoad
    \/ InsertBoardWrite
    \/ InsertBoardHistory
    \/ RaceDeleteLoad
    \/ RaceDeleteStatement

SpecRace == InitRace /\ [][NextRace]_vars

----------------------------------------------------------------------------
(* Search Engine *)

\* the titles of the boards that are searched, and the characters of a
\* title: a title is a string, a term and a LIKE pattern are sequences of
\* characters
SearchTitles == {"Rk", "k r", "r"}

Chars(str) ==
    CASE str = "Rk" -> <<"R", "k">>
      [] str = "k r" -> <<"k", " ", "r">>
      [] str = "r" -> <<"r">>
      [] str = "road" -> <<"r", "o", "a", "d">>
      [] str = "map" -> <<"m", "a", "p">>
      [] OTHER -> <<>>

\* the string of a sequence of characters
RECURSIVE Str(_)
Str(s) == IF Len(s) = 0 THEN "" ELSE Head(s) \o Str(Tail(s))

\* strings.ToLower and SQL lower(), per character and per string
LowerChar(c) == CASE c = "R" -> "r" [] c = "K" -> "k" [] OTHER -> c

ToLower(s) == [i \in 1..Len(s) |-> LowerChar(s[i])]

\* unicode.IsSpace
IsSpace(c) == c \in {" ", "\t"}

\* strings.TrimSpace
RECURSIVE TrimLeft(_)
TrimLeft(s) ==
    IF Len(s) > 0 /\ IsSpace(Head(s)) THEN TrimLeft(Tail(s)) ELSE s

RECURSIVE TrimRight(_)
TrimRight(s) ==
    IF Len(s) > 0 /\ IsSpace(s[Len(s)])
    THEN TrimRight(SubSeq(s, 1, Len(s) - 1))
    ELSE s

TrimSpace(s) == TrimRight(TrimLeft(s))

\* strings.Split(s, sep) for a one-character sep: the pieces between the
\* occurrences of sep, empty pieces included
RECURSIVE Split(_, _)
Split(s, sep) ==
    IF \A i \in 1..Len(s) : s[i] # sep
    THEN <<s>>
    ELSE LET k == CHOOSE i \in 1..Len(s) :
                     s[i] = sep /\ \A j \in 1..(i - 1) : s[j] # sep
         IN  <<SubSeq(s, 1, k - 1)>> \o Split(SubSeq(s, k + 1, Len(s)), sep)

\* SQL: text LIKE pattern, % matching any run of characters and _ any one
RECURSIVE Like(_, _)
Like(text, pattern) ==
    IF Len(pattern) = 0 THEN Len(text) = 0
    ELSE IF Head(pattern) = "%"
    THEN Like(text, Tail(pattern)) \/ (Len(text) > 0 /\ Like(Tail(text), pattern))
    ELSE /\ Len(text) > 0
         /\ Head(pattern) = "_" \/ Head(pattern) = Head(text)
         /\ Like(Tail(text), Tail(pattern))

\* the words the conditions loop of lines 1015 and 1124 ranges over
titleWords(term) == Split(TrimSpace(term), " ")

\* conditions := sq.And{sq.Like{"lower(b.title)": "%" + lower(word) + "%"}}
\* over the words of the term
titleConditions(term, title) ==
    \A i \in 1..Len(titleWords(term)) :
        Like(ToLower(Chars(title)),
             <<"%">> \o ToLower(titleWords(term)[i]) \o <<"%">>)

\* the property-name condition of the Postgres dialect,
\* b.properties->term is not null: the properties have the key
propertyCondition(term, properties) ==
    Str(term) \in DOMAIN UnmarshalJSON(properties)

BoardSearchFieldTitle == "title"
BoardSearchFieldPropertyName == "property_name"
BoardSearchFields == {BoardSearchFieldTitle, BoardSearchFieldPropertyName}

\* boardsFromRows over the rows of a query
boardsFromRows(rows) == [i \in 1..Len(rows) |-> BoardFromRow(rows[i])]

\* UNION ALL: the rows of both queries, duplicates kept
unionRows_All(q1, q2) == q1 \o q2

\* (q1) UNION (q2): the rows of both queries, equal rows once
unionRows(q1, q2) ==
    RowsOf({q1[i] : i \in 1..Len(q1)} \cup {q2[i] : i \in 1..Len(q2)})

\* searchBoardsForUserInTeam, lines 977-984: the rows of openBoardsQ
openBoardsQ(tbl, teamID) ==
    {b \in tbl : ~b.isTemplate /\ b.teamID = teamID /\ b.type = BoardTypeOpen}

\* memberBoardsQ without the b.team_id condition of line 992
memberBoardsQ_AnyTeam(tbl, mtbl, teamID, userID) ==
    {b \in tbl :
        /\ ~b.isTemplate
        /\ \E bm \in mtbl : bm.boardID = b.id /\ bm.userID = userID}

\* searchBoardsForUserInTeam, lines 986-994: the rows of memberBoardsQ
memberBoardsQ(tbl, mtbl, teamID, userID) ==
    {b \in tbl :
        /\ ~b.isTemplate
        /\ b.teamID = teamID
        /\ \E bm \in mtbl : bm.boardID = b.id /\ bm.userID = userID}

\* searchBoardsForUserInTeam, lines 996-1004: the rows of
\* channelMemberBoardsQ
channelMemberBoardsQ(tbl, teamID, userID) ==
    {b \in tbl :
        /\ ~b.isTemplate
        /\ b.teamID = teamID
        /\ <<b.channelID, userID>> \in channelMembers}

\* searchBoardsForUserInTeam
searchBoardsForUserInTeam(tbl, mtbl, teamID, term, userID) ==
    LET conditions(b) == (Len(term) # 0) => titleConditions(term, b.title)
        openBoards == RowsOf({b \in openBoardsQ(tbl, teamID) : conditions(b)})
        memberBoards ==
            RowsOf({b \in memberBoardsQ(tbl, mtbl, teamID, userID) : conditions(b)})
        channelMemberBoards ==
            RowsOf({b \in channelMemberBoardsQ(tbl, teamID, userID) : conditions(b)})
    IN  boardsFromRows(unionRows(unionRows(openBoards, memberBoards),
                                 channelMemberBoards))

\* searchBoardsForUser, lines 1071-1078: the rows of boardMembersQ
boardMembersQ(tbl, mtbl, userID) ==
    {b \in tbl :
        /\ ~b.isTemplate
        /\ \E bm \in mtbl : bm.boardID = b.id /\ bm.userID = userID}

\* teamMembersQ without the tm.deleteAt condition of line 1087
teamMembersQ_AnyDeleteAt(tbl, userID) ==
    {b \in tbl :
        /\ ~b.isTemplate
        /\ <<b.teamID, userID>> \in teamMembers \cup formerTeamMembers
        /\ b.type = BoardTypeOpen}

\* searchBoardsForUser, lines 1080-1089: the rows of teamMembersQ
teamMembersQ(tbl, userID) ==
    {b \in tbl :
        /\ ~b.isTemplate
        /\ \E tm \in teamMembers \cup formerTeamMembers :
              /\ tm[1] = b.teamID
              /\ tm[2] = userID
              /\ tm \in teamMembers
        /\ b.type = BoardTypeOpen}

\* searchBoardsForUser, lines 1091-1098: the rows of channelMembersQ
channelMembersQ(tbl, userID) ==
    {b \in tbl : ~b.isTemplate /\ <<b.channelID, userID>> \in channelMembers}

\* searchBoardsForUser that joins the channel branch for a guest too
searchBoardsForUser_GuestChannel(tbl, mtbl, term, searchField, userID, includePublicBoards) ==
    LET conditions(b) ==
            (Len(term) # 0) =>
                IF searchField = BoardSearchFieldPropertyName
                THEN propertyCondition(term, b.properties)
                ELSE titleConditions(term, b.title)
        boardMembers == RowsOf({b \in boardMembersQ(tbl, mtbl, userID) : conditions(b)})
        teamMembersRows == RowsOf({b \in teamMembersQ(tbl, userID) : conditions(b)})
        channelMembersRows == RowsOf({b \in channelMembersQ(tbl, userID) : conditions(b)})
    IN  boardsFromRows(
            IF includePublicBoards
            THEN unionRows(unionRows(boardMembers, channelMembersRows), teamMembersRows)
            ELSE unionRows(boardMembers, channelMembersRows))

\* searchBoardsForUser
searchBoardsForUser(tbl, mtbl, term, searchField, userID, includePublicBoards) ==
    LET conditions(b) ==
            (Len(term) # 0) =>
                IF searchField = BoardSearchFieldPropertyName
                THEN propertyCondition(term, b.properties)
                ELSE titleConditions(term, b.title)
        boardMembers == RowsOf({b \in boardMembersQ(tbl, mtbl, userID) : conditions(b)})
        teamMembersRows == RowsOf({b \in teamMembersQ(tbl, userID) : conditions(b)})
        channelMembersRows == RowsOf({b \in channelMembersQ(tbl, userID) : conditions(b)})
    IN  boardsFromRows(
            IF userID \notin guests
            THEN IF includePublicBoards
                 THEN unionRows(unionRows(boardMembers, channelMembersRows),
                                teamMembersRows)
                 ELSE unionRows(boardMembers, channelMembersRows)
            ELSE IF includePublicBoards
                 THEN unionRows(boardMembers, teamMembersRows)
                 ELSE boardMembers)

\* a call of a search: team is "" for searchBoardsForUser, field and
\* includePublicBoards are those of searchBoardsForUser
SearchCall(op, team, term, field, user, includePublicBoards, out) ==
    [op |-> op, id |-> team, term |-> term, field |-> field, user |-> user,
     includePublicBoards |-> includePublicBoards, res |-> Ok, out |-> out]

\* searchBoardsForUserInTeam(teamID, term, userID)
SearchBoardsForUserInTeam(teamID, term, userID) ==
    /\ last' = SearchCall("searchBoardsForUserInTeam", teamID, term,
                          BoardSearchFieldTitle, userID, TRUE,
                          searchBoardsForUserInTeam(boards, board_members,
                                                    teamID, term, userID))
    /\ UNCHANGED <<dbvars, rosters, now>>

\* searchBoardsForUser(term, searchField, userID, includePublicBoards)
SearchBoardsForUser(term, searchField, userID, includePublicBoards) ==
    /\ last' = SearchCall("searchBoardsForUser", "", term, searchField, userID,
                          includePublicBoards,
                          searchBoardsForUser(boards, board_members, term,
                                              searchField, userID,
                                              includePublicBoards))
    /\ UNCHANGED <<dbvars, rosters, now>>

----------------------------------------------------------------------------
(* The states the searches are called in *)

\* a live board as u1 created it at time 1
SearchBoard(id, teamID, channelID, type, isTemplate, title, properties) ==
    insertBoardHistoryRow({}, NewBoard(id, teamID, channelID, type, isTemplate,
                                       title, "", "", 0, 0, properties),
                          "u1", 1)

\* b1 is a board of either team, with or without the channel, open or
\* private, template or not
SearchProfiles ==
    {SearchBoard("b1", t, c, ty, tmpl, "Rk", EmptyMap) :
        t \in TeamIDs, c \in {""} \cup ChannelIDs, ty \in BoardTypes,
        tmpl \in BOOLEAN}

\* b2, the board beside it, is missing, or an open board of t1, or a
\* private board of t1 linked to the channel, or a private board of the
\* global team
SearchNeighbours ==
    {{},
     {SearchBoard("b2", "t1", "", BoardTypeOpen, FALSE, "r", MapSet(EmptyMap, "K", "v"))},
     {SearchBoard("b2", "t1", "c1", BoardTypePrivate, FALSE, "k r", EmptyMap)},
     {SearchBoard("b2", GlobalTeamID, "", BoardTypePrivate, FALSE, "r", EmptyMap)}}

\* what the tables and rosters hold beside the boards: u1 may have a stored
\* row on either board and u2 on b1; the channel roster is one of
\* channelRosters; u1 may be a guest; u1 is, was or never was a member of t1 and is or is not
\* one of the global team; u2 is a member of t1
InitSearchRosters(pairs, guestSets, channelRosters, teamStates) ==
    /\ \E stored \in SUBSET pairs :
         /\ board_members =
               {MemberRow(p[1], p[2], InitFlags(p[2])) : p \in stored}
         /\ board_members_history =
               RowsOf({MemberHistoryEntry(p[1], p[2], "created") : p \in stored})
    /\ guests \in guestSets
    /\ bots = {}
    /\ channelMembers \in channelRosters
    /\ \E st \in teamStates :
         /\ teamMembers = st[1] \cup {<<"t1", "u2">>}
         /\ formerTeamMembers = st[2]
    /\ children = [b \in BoardIDs |-> FALSE]
    /\ now = 1
    /\ last = NoCall

TeamStates ==
    {<<cur, former>> \in
        (SUBSET (TeamIDs \X {"u1"})) \X (SUBSET ({"t1"} \X {"u1"})) :
        cur \cap former = {}}

InitSearch ==
    /\ \E b1 \in SearchProfiles : \E rest \in SearchNeighbours :
         /\ boards = {b1} \cup rest
         /\ boards_history = RowsOf(boards)
    /\ InitSearchRosters({<<"b1", "u1">>, <<"b2", "u1">>, <<"b1", "u2">>},
                         {{}, {"u1"}}, SUBSET (ChannelIDs \X RealUsers),
                         TeamStates)

\* the terms of the searches over every table state: none, and one word
SearchTerms == {<<>>, <<"r">>}

NextSearch ==
    \/ \E t \in TeamIDs : \E term \in SearchTerms :
          last = NoCall /\ SearchBoardsForUserInTeam(t, term, "u1")
    \/ \E term \in SearchTerms : \E f \in BoardSearchFields : \E incl \in BOOLEAN :
          last = NoCall /\ SearchBoardsForUser(term, f, "u1", incl)

SpecSearch == InitSearch /\ [][NextSearch]_vars

----------------------------------------------------------------------------
(* Search Engine: the boards of a user in a team *)

NotAllFound == "NotAllFound"

\* getBoardsInTeamByIds: the boards of the team among the ids, and
\* ErrNotAllFound beside them when their number is not the number of ids
getBoardsInTeamByIds(tbl, boardIDs, teamID) ==
    LET ids == {boardIDs[i] : i \in DOMAIN boardIDs}
        found == boardsFromRows(RowsOf({b \in tbl : b.teamID = teamID /\ b.id \in ids}))
    IN  [boards |-> found,
         err |-> IF Len(found) # Len(boardIDs) THEN NotAllFound ELSE Ok]

\* getBoardsForUserAndTeam: the search of the team without a term, or the
\* boards of the team among those getMembersForUser lists; what
\* getBoardsInTeamByIds found is returned with or without ErrNotAllFound
getBoardsForUserAndTeam(tbl, mtbl, userID, teamID, includePublicBoards) ==
    IF includePublicBoards
    THEN searchBoardsForUserInTeam(tbl, mtbl, teamID, <<>>, userID)
    ELSE LET members == getMembersForUser(tbl, mtbl, userID)
             boardIDs == [i \in DOMAIN members |-> members[i].boardID]
         IN  getBoardsInTeamByIds(tbl, boardIDs, teamID).boards

\* getBoardsForUserAndTeam(userID, teamID, includePublicBoards)
GetBoardsForUserAndTeam(userID, teamID, includePublicBoards) ==
    /\ last' = SearchCall("getBoardsForUserAndTeam", teamID, <<>>,
                          BoardSearchFieldTitle, userID, includePublicBoards,
                          getBoardsForUserAndTeam(boards, board_members, userID,
                                                  teamID, includePublicBoards))
    /\ UNCHANGED <<dbvars, rosters, now>>

\* the listing is taken once from every state the searches start in
NextTeam ==
    \E u \in RealUsers : \E t \in TeamIDs : \E incl \in BOOLEAN :
        last = NoCall /\ GetBoardsForUserAndTeam(u, t, incl)

SpecTeam == InitSearch /\ [][NextTeam]_vars

----------------------------------------------------------------------------
(* The term filter of the searches: every term up to MaxTermLen characters *)

TermChars == {"r", "K", " ", "\t", "_", "%"}

Terms == UNION {[1..n -> TermChars] : n \in 0..MaxTermLen}

\* b1 has any of the titles and is reached through the open branch, the
\* channel branch or the member branch
TermProfiles ==
    {SearchBoard("b1", "t1", "", BoardTypeOpen, FALSE, t, EmptyMap) : t \in SearchTitles}
    \cup {SearchBoard("b1", "t1", "c1", BoardTypePrivate, FALSE, t, EmptyMap) :
             t \in SearchTitles}
    \cup {SearchBoard("b1", GlobalTeamID, "", BoardTypePrivate, FALSE, t, EmptyMap) :
             t \in SearchTitles}

InitTerm ==
    /\ \E b1 \in TermProfiles :
         /\ boards = {b1, SearchBoard("b2", "t1", "", BoardTypeOpen, FALSE, "r",
                                      MapSet(EmptyMap, "K", "v"))}
         /\ boards_history = RowsOf(boards)
    /\ InitSearchRosters({<<"b1", "u1">>}, {{}}, {{<<"c1", "u1">>}},
                         {<<{<<"t1", "u1">>}, {}>>})

NextTerm ==
    \/ \E t \in TeamIDs : \E term \in Terms :
          last = NoCall /\ SearchBoardsForUserInTeam(t, term, "u1")
    \/ \E term \in Terms : \E f \in BoardSearchFields : \E incl \in BOOLEAN :
          last = NoCall /\ SearchBoardsForUser(term, f, "u1", incl)

SpecTerm == InitTerm /\ [][NextTerm]_vars

----------------------------------------------------------------------------
(* Search Engine: the text of the union queries *)

\* model.PostgresDBType, model.MysqlDBType, model.SqliteDBType
PostgresDBType == "postgres"
MysqlDBType == "mysql"
SqliteDBType == "sqlite3"
DBTypes == {PostgresDBType, MysqlDBType, SqliteDBType}

\* sq.Question, sq.Dollar
Question == "question"
Dollar == "dollar"

\* a piece of SQL: its text as a sequence of tokens, "?" the placeholder,
\* and the arguments bound to its placeholders, in order
Sqlizer(sql, args) == [sql |-> sql, args |-> args]

\* the texts of the parts one after the other, sep between two of them
RECURSIVE JoinSql(_, _)
JoinSql(parts, sep) ==
    IF Len(parts) = 0 THEN <<>>
    ELSE IF Len(parts) = 1 THEN parts[1].sql
    ELSE parts[1].sql \o sep \o JoinSql(Tail(parts), sep)

\* the arguments of the parts one after the other
RECURSIVE JoinArgs(_)
JoinArgs(parts) ==
    IF Len(parts) = 0 THEN <<>> ELSE parts[1].args \o JoinArgs(Tail(parts))

\* the columns of the sq.Eq maps in the order squirrel emits them: sorted
ColumnOrder ==
    <<"b.is_template", "b.team_id", "b.type", "bm.user_id", "cm.userId",
      "tm.deleteAt", "tm.userID">>

\* sq.Eq{...}.ToSql: "col = ?" per key in sorted order, joined with AND
Eq(m) ==
    LET cols == SelectSeq(ColumnOrder, LAMBDA c : c \in DOMAIN m)
    IN  Sqlizer(JoinSql([i \in 1..Len(cols) |->
                            Sqlizer(<<cols[i] \o " =", "?">>, <<>>)], <<"AND">>),
                [i \in 1..Len(cols) |-> m[cols[i]]])

\* sq.Like{"lower(b.title)": pattern}.ToSql
LikeTitle(pattern) == Sqlizer(<<"lower(b.title) LIKE", "?">>, <<pattern>>)

\* sq.And{...}.ToSql: the parts in parentheses joined with AND, (1=1) for
\* none
And(parts) ==
    IF Len(parts) = 0 THEN Sqlizer(<<"(1=1)">>, <<>>)
    ELSE Sqlizer(<<"(">> \o JoinSql(parts, <<"AND">>) \o <<")">>, JoinArgs(parts))

\* a SelectBuilder: Select(boardFields("b.")...).From(...).Join(...)
Select(format, from) ==
    [format |-> format, prefixes |-> <<>>, from |-> from, wheres |-> <<>>,
     suffixes |-> <<>>]

Where(q, part) == [q EXCEPT !.wheres = Append(@, part)]

Prefix(q, sql) == [q EXCEPT !.prefixes = Append(@, Sqlizer(sql, <<>>))]

Suffix(q, sql, args) == [q EXCEPT !.suffixes = Append(@, Sqlizer(sql, args))]

\* the number of placeholders among the first n tokens
RECURSIVE CountPlaceholders(_, _)
CountPlaceholders(sql, n) ==
    IF n = 0 THEN 0
    ELSE CountPlaceholders(sql, n - 1) + (IF sql[n] = "?" THEN 1 ELSE 0)

\* PlaceholderFormat.ReplacePlaceholders: sq.Question leaves the text as it
\* is, sq.Dollar rewrites the k-th "?" of the text to $k
ReplacePlaceholders(sql, format) ==
    IF format = Question THEN sql
    ELSE [i \in 1..Len(sql) |->
             IF sql[i] = "?" THEN "$" \o ToString(CountPlaceholders(sql, i))
             ELSE sql[i]]

\* SelectBuilder.ToSql: prefixes, SELECT ... FROM ..., WHERE parts joined
\* with AND, suffixes; the arguments in the same order; the placeholders
\* rewritten in the builder's format
ToSql(q) ==
    LET text == JoinSql(q.prefixes, <<>>) \o <<"SELECT">> \o q.from
                \o (IF Len(q.wheres) = 0 THEN <<>>
                    ELSE <<"WHERE">> \o JoinSql(q.wheres, <<"AND">>))
                \o JoinSql(q.suffixes, <<>>)
    IN  Sqlizer(ReplacePlaceholders(text, q.format),
                JoinArgs(q.prefixes) \o JoinArgs(q.wheres) \o JoinArgs(q.suffixes))

\* the branch queries built with the numbered format of the dialect
branchPlaceholderFormat_Dollar == Dollar

\* lines 975 and 1069: builder := ....PlaceholderFormat(sq.Question)
branchPlaceholderFormat == Question

\* lines 1014-1017 and 1123-1126: conditions over the words of the term
likeConditions(term) ==
    And([i \in 1..Len(titleWords(term)) |->
            LikeTitle("%" \o Str(ToLower(titleWords(term)[i])) \o "%")])

\* lines 1042-1048 and 1169-1175: the numbered placeholders of Postgres and
\* SQLite, written once the text is whole
finalPlaceholders(dbType, union) ==
    IF dbType \in {PostgresDBType, SqliteDBType}
    THEN Sqlizer(ReplacePlaceholders(union.sql, Dollar), union.args)
    ELSE union

\* searchBoardsForUserInTeam, lines 975-1048: unionSQL and unionArgs
searchBoardsForUserInTeamSQL(dbType, teamID, term, userID) ==
    LET filtered(q) == IF term # <<>> THEN Where(q, likeConditions(term)) ELSE q
        openBoardsQBuilder ==
            filtered(Where(Select(branchPlaceholderFormat, <<"FROM boards as b">>),
                           Eq([c \in {"b.is_template", "b.team_id", "b.type"} |->
                                 CASE c = "b.is_template" -> "false"
                                   [] c = "b.team_id" -> teamID
                                   [] c = "b.type" -> BoardTypeOpen])))
        memberBoardsQBuilder ==
            filtered(Where(Select(branchPlaceholderFormat,
                                  <<"FROM boards AS b",
                                    "JOIN board_members AS bm on b.id = bm.board_id">>),
                           Eq([c \in {"b.is_template", "b.team_id", "bm.user_id"} |->
                                 CASE c = "b.is_template" -> "false"
                                   [] c = "b.team_id" -> teamID
                                   [] c = "bm.user_id" -> userID])))
        channelMemberBoardsQBuilder ==
            filtered(Where(Select(branchPlaceholderFormat,
                                  <<"FROM boards AS b",
                                    "JOIN ChannelMembers AS cm on cm.channelId = b.channel_id">>),
                           Eq([c \in {"b.is_template", "b.team_id", "cm.userId"} |->
                                 CASE c = "b.is_template" -> "false"
                                   [] c = "b.team_id" -> teamID
                                   [] c = "cm.userId" -> userID])))
        member == ToSql(memberBoardsQBuilder)
        channel == ToSql(channelMemberBoardsQBuilder)
        unionQ == Suffix(Suffix(Prefix(openBoardsQBuilder, <<"(">>),
                                <<") UNION (">> \o member.sql, member.args),
                         <<") UNION (">> \o channel.sql \o <<")">>, channel.args)
    IN  finalPlaceholders(dbType, ToSql(unionQ))

\* searchBoardsForUser, lines 1100-1116: the property-name condition of
\* each dialect
propertyWhere(dbType, term) ==
    CASE dbType = PostgresDBType ->
            Sqlizer(<<"b.properties->", "?", "is not null">>, <<Str(term)>>)
      [] dbType \in {MysqlDBType, SqliteDBType} ->
            Sqlizer(<<"JSON_EXTRACT(b.properties,", "?", ") IS NOT NULL">>,
                    <<"$." \o Str(term)>>)
      [] OTHER ->
            Sqlizer(<<"b.properties LIKE", "?">>, <<"%\"" \o Str(term) \o "\"%">>)

\* searchBoardsForUser, lines 1069-1175: unionSQL and unionArgs
searchBoardsForUserSQL(dbType, term, searchField, userID, includePublicBoards) ==
    LET filtered(q) ==
            IF term = <<>> THEN q
            ELSE IF searchField = BoardSearchFieldPropertyName
            THEN Where(q, propertyWhere(dbType, term))
            ELSE Where(q, likeConditions(term))
        boardMembersQBuilder ==
            filtered(Where(Select(branchPlaceholderFormat,
                                  <<"FROM boards as b",
                                    "JOIN board_members as bm on b.id=bm.board_id">>),
                           Eq([c \in {"b.is_template", "bm.user_id"} |->
                                 CASE c = "b.is_template" -> "false"
                                   [] c = "bm.user_id" -> userID])))
        teamMembersQBuilder ==
            filtered(Where(Select(branchPlaceholderFormat,
                                  <<"FROM boards as b",
                                    "JOIN TeamMembers as tm on tm.teamid=b.team_id">>),
                           Eq([c \in {"b.is_template", "tm.userID", "tm.deleteAt", "b.type"} |->
                                 CASE c = "b.is_template" -> "false"
                                   [] c = "tm.userID" -> userID
                                   [] c = "tm.deleteAt" -> "0"
                                   [] c = "b.type" -> BoardTypeOpen])))
        channelMembersQBuilder ==
            filtered(Where(Select(branchPlaceholderFormat,
                                  <<"FROM boards as b",
                                    "JOIN ChannelMembers as cm on cm.channelId=b.channel_id">>),
                           Eq([c \in {"b.is_template", "cm.userId"} |->
                                 CASE c = "b.is_template" -> "false"
                                   [] c = "cm.userId" -> userID])))
        team == ToSql(teamMembersQBuilder)
        channel == ToSql(channelMembersQBuilder)
        withChannel == Suffix(Prefix(boardMembersQBuilder, <<"(">>),
                              <<") UNION (">> \o channel.sql \o <<")">>, channel.args)
        unionQ ==
            IF userID \notin guests
            THEN IF includePublicBoards
                 THEN Suffix(withChannel, <<" UNION (">> \o team.sql \o <<")">>,
                             team.args)
                 ELSE withChannel
            ELSE IF includePublicBoards
            THEN Suffix(Prefix(boardMembersQBuilder, <<"(">>),
                        <<") UNION (">> \o team.sql \o <<")">>, team.args)
            ELSE boardMembersQBuilder
    IN  finalPlaceholders(dbType, ToSql(unionQ))

\* a search as its query goes to db.Query: the text, the arguments, and
\* the boards of the rows that come back
QueryCall(op, dbType, team, term, field, user, includePublicBoards, query, out) ==
    [op |-> op, dbType |-> dbType, id |-> team, term |-> term, field |-> field,
     user |-> user, includePublicBoards |-> includePublicBoards, res |-> Ok,
     sql |-> query.sql, args |-> query.args, out |-> out]

\* searchBoardsForUserInTeam(teamID, term, userID) on a store of the dialect
QueryBoardsForUserInTeam(dbType, teamID, term, userID) ==
    /\ last' = QueryCall("searchBoardsForUserInTeam", dbType, teamID, term,
                         BoardSearchFieldTitle, userID, TRUE,
                         searchBoardsForUserInTeamSQL(dbType, teamID, term, userID),
                         searchBoardsForUserInTeam(boards, board_members, teamID,
                                                   term, userID))
    /\ UNCHANGED <<dbvars, rosters, now>>

\* searchBoardsForUser(term, searchField, userID, includePublicBoards) on a
\* store of the dialect
QueryBoardsForUser(dbType, term, searchField, userID, includePublicBoards) ==
    /\ last' = QueryCall("searchBoardsForUser", dbType, "", term, searchField,
                         userID, includePublicBoards,
                         searchBoardsForUserSQL(dbType, term, searchField, userID,
                                                includePublicBoards),
                         searchBoardsForUser(boards, board_members, term,
                                             searchField, userID,
                                             includePublicBoards))
    /\ UNCHANGED <<dbvars, rosters, now>>

\* the terms of the queries: none, one word, two words, two words two
\* spaces apart, a question mark
QueryTerms ==
    {<<>>, <<"r">>, <<"r", " ", "K">>, <<"r", " ", " ", "K">>, <<"?">>}

\* b1 is an open board of t1 titled "r"; u1 has a stored row on it or not,
\* is a guest or not
InitQuery ==
    /\ boards = {SearchBoard("b1", "t1", "", BoardTypeOpen, FALSE, "r",
                             MapSet(EmptyMap, "r", "v"))}
    /\ boards_history = RowsOf(boards)
    /\ InitSearchRosters({<<"b1", "u1">>}, {{}, {"u1"}}, {{<<"c1", "u1">>}},
                         {<<{<<"t1", "u1">>}, {}>>})

NextQuery ==
    \/ \E d \in DBTypes : \E t \in TeamIDs : \E term \in QueryTerms :
          last = NoCall /\ QueryBoardsForUserInTeam(d, t, term, "u1")
    \/ \E d \in DBTypes : \E term \in QueryTerms : \E f \in BoardSearchFields :
       \E incl \in BOOLEAN :
          last = NoCall /\ QueryBoardsForUser(d, term, f, "u1", incl)

SpecQuery == InitQuery /\ [][NextQuery]_vars

----------------------------------------------------------------------------
(* Claims about the versioned board store, checked under SpecBoard *)

\* the newest snapshot of a board in boards_history, NoBoard when it has none
NewestSnapshot(hist, boardID) ==
    LET mine == HistoryOf(hist, boardID)
    IN  IF Len(mine) = 0 THEN NoBoard ELSE BoardFromRow(mine[Len(mine)])

\* a board without the three fields an undelete is allowed to change
SansWriteStamp(board) ==
    [board EXCEPT !.modifiedBy = "", !.updateAt = 0, !.deleteAt = 0]

\* C1: after every successful insertBoard, also when reached through
\* patchBoard, getBoardHistory(boardID, limit 1, descending) returns one
\* snapshot and it equals the live row of the board in every field.
C1_HistoryHeadEqualsLiveRow ==
    (last.op \in {"insertBoard", "patchBoard"} /\ last.res = Ok) =>
        LET head == getBoardHistory(boards_history, last.id, NewestOpts)
        IN  /\ Len(head) = 1
            /\ head[1] = getBoard(boards, last.id)

\* C2: a delete of a live board followed by an undelete of it yields a live
\* row equal to the row before the delete in every field except modifiedBy
\* and updateAt, which are the undelete's actor and time, and deleteAt,
\* which is 0.
C2_DeleteUndeleteRestores ==
    [][(/\ last.op = "deleteBoard"
        /\ last.res = Ok
        /\ last'.op = "undeleteBoard"
        /\ last'.id = last.id)
       => LET restored == getBoard(boards', last.id)
          IN  /\ restored # NoBoard
              /\ SansWriteStamp(restored) = SansWriteStamp(last.pre)
              /\ restored.modifiedBy = last'.user
              /\ restored.updateAt = now'
              /\ restored.deleteAt = 0]_vars

\* C3: an undelete of a board that has no snapshot, or whose newest snapshot
\* has deleteAt = 0, returns success, writes no row to boards or
\* boards_history and does not call the children cascade; and an undelete
\* that follows an undelete of the same board changes nothing.
C3_UndeleteNoOp ==
    [][(last'.op = "undeleteBoard") =>
         LET newest == NewestSnapshot(boards_history, last'.id)
         IN  /\ (newest = NoBoard \/ newest.deleteAt = 0) =>
                   /\ last'.res = Ok
                   /\ last'.cascade = "none"
                   /\ UNCHANGED <<dbvars, rosters>>
             /\ (last.op = "undeleteBoard" /\ last.id = last'.id) =>
                   UNCHANGED <<dbvars, rosters>>]_vars

\* C3 witness: an undelete of a live, never deleted board has returned
C3_Witness ==
    /\ last.op = "undeleteBoard"
    /\ last.res = Ok
    /\ last.cascade = "none"
    /\ last.pre # NoBoard
    /\ NewestSnapshot(boards_history, last.id) # NoBoard
    /\ NewestSnapshot(boards_history, last.id).deleteAt = 0

\* the snapshot a delete of the board by the user at time t has to write
DeletedSnapshot(board, user, t) ==
    [board EXCEPT !.modifiedBy = user, !.updateAt = t, !.deleteAt = t]

\* C16: a delete of a live board that has returned left no live row of the
\* id and appended one snapshot to boards_history, equal to the live row
\* it found except modifiedBy = the acting user and updateAt = deleteAt =
\* the time of the delete; and the snapshot is written before the live row
\* is removed: at no point of the call is the row gone and the snapshot
\* missing.
C16_DeleteSnapshotsThenRemoves ==
    (last.op = "deleteBoard" /\ last.res \in {Pending, Ok}) =>
        LET written == Len(boards_history) = Len(last.hist) + 1
            removed == getBoard(boards, last.id) = NoBoard
        IN  /\ SubSeq(boards_history, 1, Len(last.hist)) = last.hist
            /\ Len(boards_history) \in {Len(last.hist), Len(last.hist) + 1}
            /\ written =>
                  BoardFromRow(boards_history[Len(boards_history)])
                      = DeletedSnapshot(last.pre, last.user, now)
            /\ ~removed => getBoard(boards, last.id) = last.pre
            /\ removed => written
            /\ last.res = Ok => removed /\ written

\* C16 witness: a delete of a board linked to a channel has returned
C16_Witness ==
    /\ last.op = "deleteBoard"
    /\ last.res = Ok
    /\ last.pre.channelID = "c1"
    /\ now > last.pre.updateAt
    /\ getBoard(boards, last.id) = NoBoard

\* C17: a patch or a delete of a board id that has no live row returns
\* NotFound and leaves boards, boards_history, board_members and the
\* children as they were: no snapshot is appended, no cascade is invoked.
C17_MissingBoardTouchesNothing ==
    [][(/\ last'.op \in {"patchBoard", "deleteBoard"}
        /\ getBoard(boards, last'.id) = NoBoard)
       => /\ last'.res = NotFound
          /\ last'.cascade = "none"
          /\ boards' = boards
          /\ boards_history' = boards_history
          /\ board_members' = board_members
          /\ board_members_history' = board_members_history
          /\ children' = children]_vars

\* C17 witness: a delete of a board that was deleted before, its children
\* kept then, came back NotFound while the other board is live
C17_Witness ==
    /\ last.op = "deleteBoard"
    /\ last.res = NotFound
    /\ getBoard(boards, last.id) = NoBoard
    /\ HistoryOf(boards_history, last.id) # <<>>
    /\ ~children[last.id]
    /\ boards # {}

\* the fields of a live row that no write changes
SameIdentity(old, new) ==
    /\ new.id = old.id
    /\ new.teamID = old.teamID
    /\ new.createdBy = old.createdBy
    /\ new.createAt = old.createAt

\* C18: the insertBoard that creates the live row sets createdBy = the
\* acting user and createAt = now, whatever the caller's board carried; an
\* insertBoard or patchBoard on a row that exists changes none of the live
\* row's id, teamID, createdBy, createAt; each such write sets modifiedBy
\* = the acting user and updateAt = now.  No call at all changes these
\* four fields of a row that stays live.
C18_CreatedOnceModifiedEachWrite ==
    [][/\ \A id \in BoardIDs :
            (getBoard(boards, id) # NoBoard /\ getBoard(boards', id) # NoBoard)
                => SameIdentity(getBoard(boards, id), getBoard(boards', id))
       /\ (last'.op \in {"insertBoard", "patchBoard"} /\ last'.res = Ok) =>
            LET old == getBoard(boards, last'.id)
                new == getBoard(boards', last'.id)
            IN  /\ new # NoBoard
                /\ new.modifiedBy = last'.user
                /\ new.updateAt = now'
                /\ old = NoBoard =>
                      (new.createdBy = last'.user /\ new.createAt = now')
                /\ old # NoBoard => SameIdentity(old, new)]_vars

\* C18 witness: an insertBoard on an existing row whose caller passed
\* another team, creator and creation time than the row has: the snapshot
\* carries the caller's values, the live row kept its own
C18_Witness ==
    /\ last.op = "insertBoard"
    /\ last.pre # NoBoard
    /\ LET row == getBoard(boards, last.id)
           snapshot == boards_history[Len(boards_history)]
       IN  /\ snapshot.teamID # row.teamID
           /\ snapshot.createdBy # row.createdBy
           /\ snapshot.createAt # row.createAt
           /\ row.createdBy = last.pre.createdBy
           /\ row.updateAt = now
           /\ row.updateAt > row.createAt

\* the places in boards_history of the snapshots of the board whose
\* updateAt lies strictly inside the window; a bound of 0 is no bound
InWindow(hist, id, opts) ==
    {i \in 1..Len(hist) :
        /\ hist[i].id = id
        /\ (opts.afterUpdateAt = 0 \/ opts.afterUpdateAt < hist[i].updateAt)
        /\ (opts.beforeUpdateAt = 0 \/ hist[i].updateAt < opts.beforeUpdateAt)}

\* the place of snapshot i in the result: one more than the number of
\* selected snapshots inserted before it, or after it when descending
PlaceOf(I, i, descending) ==
    Cardinality({j \in I : IF descending THEN j > i ELSE j < i}) + 1

\* C19: getBoardHistory(boardID, opts) returns the snapshots of the board
\* with afterUpdateAt < updateAt < beforeUpdateAt, each bound strict and a
\* bound of 0 no bound, in insertion order, reversed when descending is
\* set, cut to the first limit entries of that order when limit is not 0;
\* and it changes no table.
C19_HistoryWindowOrderLimit ==
    [][last'.op = "getBoardHistory" =>
         LET opts == last'.opts
             out == last'.out
             I == InWindow(boards_history, last'.id, opts)
             n == IF opts.limit # 0 /\ opts.limit < Cardinality(I)
                  THEN opts.limit ELSE Cardinality(I)
         IN  /\ Len(out) = n
             /\ \A i \in I :
                    PlaceOf(I, i, opts.descending) <= n =>
                        out[PlaceOf(I, i, opts.descending)]
                            = BoardFromRow(boards_history[i])
             /\ UNCHANGED <<dbvars, rosters, now>>]_vars

\* C19 witness: of three snapshots of the board the window leaves out the
\* one whose updateAt equals afterUpdateAt, and the two others come back
\* newest first
C19_Witness ==
    /\ last.op = "getBoardHistory"
    /\ last.opts.afterUpdateAt = 1
    /\ last.opts.beforeUpdateAt = 3
    /\ last.opts.descending
    /\ last.opts.limit = 2
    /\ Len(HistoryOf(boards_history, last.id)) = 3
    /\ Cardinality(InWindow(boards_history, last.id, last.opts)) = 2
    /\ Len(last.out) = 2
    /\ last.out[1] # last.out[2]
    /\ last.out[1] = BoardFromRow(boards_history[Len(boards_history)])

\* an undeleteBoard that has nothing to do: the board has no snapshot, or
\* the snapshot inserted last is not a deleted one
NothingToUndelete(hist, id) ==
    LET mine == {i \in 1..Len(hist) : hist[i].id = id}
    IN  \/ mine = {}
        \/ hist[CHOOSE i \in mine : \A j \in mine : j <= i].deleteAt = 0

\* C20: over insertBoard, patchBoard, deleteBoardAndChildren and
\* undeleteBoard, boards_history only grows at its end: the snapshots it
\* holds stay as they are and where they are; a call that returns without
\* error and changes the boards table appends exactly one snapshot; a call
\* that returns NotFound, and an undeleteBoard with nothing to undelete,
\* append none.
C20_HistoryAppendOnly ==
    [][/\ Len(boards_history') >= Len(boards_history)
       /\ SubSeq(boards_history', 1, Len(boards_history)) = boards_history
       /\ (last'.res = Ok /\ boards' # boards)
              => Len(boards_history') = Len(boards_history) + 1
       /\ last'.res = NotFound => boards_history' = boards_history
       /\ (last'.op = "undeleteBoard" /\ NothingToUndelete(boards_history, last'.id))
              => boards_history' = boards_history]_vars

\* C20 witness: a board was created, deleted and undeleted, and the three
\* snapshots are in boards_history in that order
C20_Witness ==
    /\ last.op = "undeleteBoard"
    /\ last.res = Ok
    /\ last.cascade = "undelete"
    /\ Len(boards_history) = 3
    /\ \A i \in 1..3 : boards_history[i].id = last.id
    /\ boards_history[1].deleteAt = 0
    /\ boards_history[2].deleteAt # 0
    /\ boards_history[3].deleteAt = 0

\* C22: in every state reached by insertBoard, patchBoard,
\* deleteBoardAndChildren and undeleteBoard calls, whatever boards the
\* callers pass (also boards whose deleteAt is not 0), each board id has at
\* most one live row; a board id that has a snapshot has a live row exactly
\* when its newest snapshot has deleteAt = 0; and no undeleteBoard fails.
C22_LiveIffNewestNotDeleted ==
    /\ \A id \in BoardIDs :
         LET newest == NewestSnapshot(boards_history, id)
         IN  /\ Cardinality({r \in boards : r.id = id}) <= 1
             /\ newest # NoBoard =>
                   (getBoard(boards, id) # NoBoard <=> newest.deleteAt = 0)
    /\ last.op = "undeleteBoard" => last.res = Ok

----------------------------------------------------------------------------
(* Claims about the membership reads, checked under SpecResolve *)

\* has board_members a row for the pair
HasRow(boardID, userID) ==
    \E r \in board_members : r.boardID = boardID /\ r.userID = userID

\* the live row of a board, NoBoard when it has none
LiveRow(boardID) ==
    IF \E r \in boards : r.id = boardID
    THEN CHOOSE r \in boards : r.id = boardID
    ELSE NoBoard

\* what the claims say of a returned member: its key, its role label, its
\* capability flags and its synthetic flag
Grant(m) ==
    [boardID |-> m.boardID, userID |-> m.userID, roles |-> m.roles,
     schemeAdmin |-> m.schemeAdmin, schemeEditor |-> m.schemeEditor,
     schemeCommenter |-> m.schemeCommenter, schemeViewer |-> m.schemeViewer,
     synthetic |-> m.synthetic]

EditorGrant(boardID, userID) ==
    [boardID |-> boardID, userID |-> userID, roles |-> "editor",
     schemeAdmin |-> FALSE, schemeEditor |-> TRUE, schemeCommenter |-> FALSE,
     schemeViewer |-> FALSE, synthetic |-> TRUE]

ViewerGrant(boardID, userID) ==
    [boardID |-> boardID, userID |-> userID, roles |-> "viewer",
     schemeAdmin |-> FALSE, schemeEditor |-> FALSE, schemeCommenter |-> FALSE,
     schemeViewer |-> TRUE, synthetic |-> TRUE]

\* the stored row of a pair as an explicit grant
RowGrant(r) ==
    [boardID |-> r.boardID, userID |-> r.userID, roles |-> r.roles,
     schemeAdmin |-> r.schemeAdmin, schemeEditor |-> r.schemeEditor,
     schemeCommenter |-> r.schemeCommenter, schemeViewer |-> r.schemeViewer,
     synthetic |-> FALSE]

\* C6: getMemberForBoard for a guest without a stored row returns NotFound,
\* whatever the board's channel, type and template flag and whatever the
\* guest's channel and team memberships.
C6_GuestGetsNoSyntheticMember ==
    (/\ last.op = "getMemberForBoard"
     /\ last.user \in guests
     /\ ~HasRow(last.id, last.user))
    => (last.out = NoMember /\ last.res = NotFound)

\* C6 witness: a guest without a stored row asked about a live board linked
\* to a channel the guest belongs to
C6_Witness ==
    /\ last.op = "getMemberForBoard"
    /\ last.user \in guests
    /\ ~HasRow(last.id, last.user)
    /\ LiveRow(last.id) # NoBoard
    /\ <<LiveRow(last.id).channelID, last.user>> \in channelMembers
    /\ last.res = NotFound

\* C7: for a user that is no guest and has no stored row, on a live board
\* with a linked channel, getMemberForBoard returns the synthetic editor if
\* the user belongs to the channel and NotFound if not; the team rule of
\* open templates is not applied to such a board.
C7_ChannelBoardGivesEditor ==
    (/\ last.op = "getMemberForBoard"
     /\ last.user \notin guests
     /\ ~HasRow(last.id, last.user)
     /\ LiveRow(last.id) # NoBoard
     /\ LiveRow(last.id).channelID # "")
    => IF <<LiveRow(last.id).channelID, last.user>> \in channelMembers
       THEN last.out # NoMember /\ Grant(last.out) = EditorGrant(last.id, last.user)
       ELSE last.out = NoMember /\ last.res = NotFound

\* C7 witness: an open template linked to a channel, a team member who is
\* not in the channel, and the answer NotFound
C7_Witness ==
    /\ last.op = "getMemberForBoard"
    /\ last.user \notin guests
    /\ ~HasRow(last.id, last.user)
    /\ LiveRow(last.id) # NoBoard
    /\ LiveRow(last.id).channelID # ""
    /\ LiveRow(last.id).type = BoardTypeOpen
    /\ LiveRow(last.id).isTemplate
    /\ <<LiveRow(last.id).teamID, last.user>> \in teamMembers
    /\ <<LiveRow(last.id).channelID, last.user>> \notin channelMembers
    /\ last.res = NotFound

\* C8: for a user that is no guest and has no stored row, on a live board
\* without a linked channel, getMemberForBoard returns the synthetic viewer
\* if the board is open and a template and the user belongs to its team,
\* and NotFound in every other case.
C8_OpenTemplateGivesViewer ==
    (/\ last.op = "getMemberForBoard"
     /\ last.user \notin guests
     /\ ~HasRow(last.id, last.user)
     /\ LiveRow(last.id) # NoBoard
     /\ LiveRow(last.id).channelID = "")
    => IF /\ LiveRow(last.id).type = BoardTypeOpen
          /\ LiveRow(last.id).isTemplate
          /\ <<LiveRow(last.id).teamID, last.user>> \in teamMembers
       THEN last.out # NoMember /\ Grant(last.out) = ViewerGrant(last.id, last.user)
       ELSE last.out = NoMember /\ last.res = NotFound

\* C8 witness: a team member got the synthetic viewer of an open template
C8_Witness ==
    /\ last.op = "getMemberForBoard"
    /\ last.user \notin guests
    /\ ~HasRow(last.id, last.user)
    /\ LiveRow(last.id) # NoBoard
    /\ LiveRow(last.id).channelID = ""
    /\ last.res = Ok
    /\ last.out.roles = "viewer"

\* the members a read call returned
Returned ==
    IF last.op = "getMemberForBoard"
    THEN IF last.out = NoMember THEN {} ELSE {last.out}
    ELSE IF last.op \in {"getMembersForUser", "getMembersForBoard"}
    THEN {last.out[i] : i \in DOMAIN last.out}
    ELSE {}

\* C9: whenever board_members has a row for the pair, getMemberForBoard
\* returns that row's capability flags with synthetic = FALSE, whatever
\* the rosters and whether or not the board is live; and every member
\* returned by getMemberForBoard, getMembersForUser or getMembersForBoard
\* has synthetic = TRUE exactly when board_members has no row for its pair.
C9_ExplicitWinsSyntheticExact ==
    /\ (last.op = "getMemberForBoard" /\ HasRow(last.id, last.user)) =>
          /\ last.out # NoMember
          /\ Grant(last.out) = RowGrant(StoredRow(board_members, last.id, last.user))
    /\ \A m \in Returned : m.synthetic <=> ~HasRow(m.boardID, m.userID)

\* C9 witness: a guest with a stored row on a board that is not live got
\* the stored row
C9_Witness ==
    /\ last.op = "getMemberForBoard"
    /\ HasRow(last.id, last.user)
    /\ last.user \in guests
    /\ LiveRow(last.id) = NoBoard
    /\ last.res = Ok

\* C10: getMembersForUser returns every stored membership of the user and,
\* when the user is no guest, one synthetic editor for each live board
\* whose linked channel the user belongs to and on which the user has no
\* stored row; nothing else, and no board twice.
C10_MembersForUser ==
    (last.op = "getMembersForUser") =>
        LET u == last.user
            explicit == {RowGrant(r) : r \in {x \in board_members : x.userID = u}}
            linked == {b \in boards :
                         /\ <<b.channelID, u>> \in channelMembers
                         /\ ~HasRow(b.id, u)}
            synthetic == IF u \in guests THEN {}
                         ELSE {EditorGrant(b.id, u) : b \in linked}
        IN  /\ {Grant(last.out[i]) : i \in DOMAIN last.out} = explicit \cup synthetic
            /\ \A i, j \in DOMAIN last.out :
                  last.out[i].boardID = last.out[j].boardID => i = j

\* C10 witness: a user with a stored row on one board and the channel of
\* both boards got one explicit and one synthetic membership
C10_Witness ==
    /\ last.op = "getMembersForUser"
    /\ Len(last.out) = 2
    /\ \E i, j \in DOMAIN last.out :
          /\ ~last.out[i].synthetic
          /\ last.out[j].synthetic
          /\ LiveRow(last.out[i].boardID) # NoBoard
          /\ <<LiveRow(last.out[i].boardID).channelID, last.user>> \in channelMembers

\* C11: getMembersForBoard returns every stored membership of the board
\* and one synthetic editor for each member of the live board's linked
\* channel who is no guest, no bot and has no stored row on the board;
\* nothing else, and no user twice: a guest or a bot is returned only with
\* its stored row.
C11_MembersForBoard ==
    (last.op = "getMembersForBoard") =>
        LET b == last.id
            explicit == {RowGrant(r) : r \in {x \in board_members : x.boardID = b}}
            eligible == IF LiveRow(b) = NoBoard \/ LiveRow(b).channelID = "" THEN {}
                        ELSE {u \in UserIDs :
                                /\ <<LiveRow(b).channelID, u>> \in channelMembers
                                /\ u \notin guests
                                /\ u \notin bots
                                /\ ~HasRow(b, u)}
            synthetic == {EditorGrant(b, u) : u \in eligible}
        IN  /\ {Grant(last.out[i]) : i \in DOMAIN last.out} = explicit \cup synthetic
            /\ \A i, j \in DOMAIN last.out :
                  last.out[i].userID = last.out[j].userID => i = j
            /\ \A i \in DOMAIN last.out :
                  last.out[i].userID \in guests \cup bots =>
                      HasRow(b, last.out[i].userID)

\* C11 witness: the channel of the board has a bot without a stored row
\* and a user that is neither guest nor bot; the bot is not returned, the
\* user is returned as a synthetic member
C11_Witness ==
    /\ last.op = "getMembersForBoard"
    /\ LiveRow(last.id) # NoBoard
    /\ \E u \in bots :
          /\ <<LiveRow(last.id).channelID, u>> \in channelMembers
          /\ ~HasRow(last.id, u)
          /\ \A i \in DOMAIN last.out : last.out[i].userID # u
    /\ \E i \in DOMAIN last.out :
          last.out[i].synthetic /\ last.out[i].userID \notin guests \cup bots

----------------------------------------------------------------------------
(* Claims about the searches, checked under SpecSearch and SpecTerm *)

\* the ids of the boards a search returned
ReturnedIDs == {last.out[i].id : i \in 1..Len(last.out)}

\* no board id twice in the result of a search, and every board returned
\* is the live board of its id
ReturnedOnce ==
    /\ \A i, j \in 1..Len(last.out) : last.out[i].id = last.out[j].id => i = j
    /\ \A i \in 1..Len(last.out) : last.out[i] = getBoard(boards, last.out[i].id)

\* the three ways a live board is reachable for a user
ExplicitBoards(u) == {b.id : b \in {x \in boards : HasRow(x.id, u)}}

ChannelBoards(u) ==
    {b.id : b \in {x \in boards : <<x.channelID, u>> \in channelMembers}}

OpenTeamBoards(u) ==
    {b.id : b \in {x \in boards :
                     x.type = BoardTypeOpen /\ <<x.teamID, u>> \in teamMembers}}

TemplateBoards == {b.id : b \in {x \in boards : x.isTemplate}}

\* C12 as stated: for a guest, searchBoardsForUser returns only boards the
\* guest has a stored row on or boards linked to a channel the guest
\* belongs to, never a board reachable through the open-board team branch
\* alone, whatever includePublicBoards is.
C12_GuestNeverGetsTeamBranch ==
    (last.op = "searchBoardsForUser" /\ last.user \in guests) =>
        ReturnedIDs \subseteq ExplicitBoards(last.user) \cup ChannelBoards(last.user)

\* C12 amended: for a guest, searchBoardsForUser never returns a board
\* reachable through channel membership alone, whatever includePublicBoards
\* is, and returns a board reachable through the open-board team branch
\* alone only when includePublicBoards is set: every board returned is one
\* the guest has a stored row on or, with includePublicBoards, an open board
\* of a team the guest belongs to; with an empty term every such board that
\* is no template is returned.
C12_GuestGetsNoChannelBranch ==
    (last.op = "searchBoardsForUser" /\ last.user \in guests) =>
        LET reachable ==
                ExplicitBoards(last.user) \cup
                (IF last.includePublicBoards THEN OpenTeamBoards(last.user) ELSE {})
        IN  /\ ReturnedIDs \subseteq reachable
            /\ Len(last.term) = 0 => ReturnedIDs = reachable \ TemplateBoards

\* C12 witness: a guest searched with includePublicBoards; a board
\* reachable through the guest's channel alone is not returned, an open
\* board of the guest's team without a stored row is
C12_Witness ==
    /\ last.op = "searchBoardsForUser"
    /\ last.user \in guests
    /\ last.includePublicBoards
    /\ Len(last.term) = 0
    /\ \E id \in ChannelBoards(last.user) \ TemplateBoards : id \notin ReturnedIDs
    /\ \E id \in ReturnedIDs : id \notin ExplicitBoards(last.user)

\* C13 as stated: with an empty term searchBoardsForUser returns, for a
\* guest as for any other user, exactly the boards the user has a stored
\* row on, the boards linked to a channel the user belongs to and, with
\* includePublicBoards only, the open boards of the teams the user belongs
\* to; no board id twice.
C13_UnionOfThreeBranches ==
    (last.op = "searchBoardsForUser" /\ Len(last.term) = 0) =>
        /\ ReturnedIDs =
              ExplicitBoards(last.user) \cup ChannelBoards(last.user) \cup
              (IF last.includePublicBoards THEN OpenTeamBoards(last.user) ELSE {})
        /\ ReturnedOnce

\* C13 amended: with an empty term searchBoardsForUser returns exactly the
\* boards that are no templates among: the boards the user has a stored
\* row on; when the user is no guest, the boards linked to a channel the
\* user belongs to; and, with includePublicBoards only, the open boards of
\* the teams the user currently belongs to; no board id twice.
C13_UnionWithoutTemplates ==
    (last.op = "searchBoardsForUser" /\ Len(last.term) = 0) =>
        /\ ReturnedIDs =
              (ExplicitBoards(last.user) \cup
               (IF last.user \in guests THEN {} ELSE ChannelBoards(last.user)) \cup
               (IF last.includePublicBoards THEN OpenTeamBoards(last.user) ELSE {}))
              \ TemplateBoards
        /\ ReturnedOnce

\* C13 witness: a user that is no guest got a board that is reachable
\* through two branches, while an open board of a team the user has left
\* is not returned
C13_Witness ==
    /\ last.op = "searchBoardsForUser"
    /\ Len(last.term) = 0
    /\ last.user \notin guests
    /\ last.includePublicBoards
    /\ \E id \in ReturnedIDs :
          id \in ExplicitBoards(last.user) \cap ChannelBoards(last.user)
    /\ \E b \in boards :
          /\ b.type = BoardTypeOpen
          /\ ~b.isTemplate
          /\ <<b.teamID, last.user>> \in formerTeamMembers
          /\ b.id \notin ReturnedIDs

\* the boards of a team
TeamBoards(t) == {b.id : b \in {x \in boards : x.teamID = t}}

OpenBoards == {b.id : b \in {x \in boards : x.type = BoardTypeOpen}}

\* C14 as stated: with an empty term searchBoardsForUserInTeam returns
\* exactly the boards of the team that are open and no templates, or that
\* the user has a stored row on, or that are linked to a channel the user
\* belongs to; no board of another team and no board id twice.
C14_TeamUnionOfThreeBranches ==
    (last.op = "searchBoardsForUserInTeam" /\ Len(last.term) = 0) =>
        /\ ReturnedIDs =
              TeamBoards(last.id) \cap
              ((OpenBoards \ TemplateBoards) \cup ExplicitBoards(last.user)
               \cup ChannelBoards(last.user))
        /\ ReturnedOnce

\* C14 amended: with an empty term searchBoardsForUserInTeam returns
\* exactly the boards of the team that are no templates and are open, or
\* that the user has a stored row on, or that are linked to a channel the
\* user belongs to; no board of another team and no board id twice.
C14_TeamUnionWithoutTemplates ==
    (last.op = "searchBoardsForUserInTeam" /\ Len(last.term) = 0) =>
        /\ ReturnedIDs =
              (TeamBoards(last.id) \ TemplateBoards) \cap
              (OpenBoards \cup ExplicitBoards(last.user)
               \cup ChannelBoards(last.user))
        /\ ReturnedOnce

\* C14 witness: the user has a stored row on a board of each team; the
\* search in one team returned that team's board and not the other
C14_Witness ==
    /\ last.op = "searchBoardsForUserInTeam"
    /\ Len(last.term) = 0
    /\ \E id \in ReturnedIDs : id \in ExplicitBoards(last.user)
    /\ \E id \in ExplicitBoards(last.user) \ TemplateBoards :
          id \notin TeamBoards(last.id) /\ id \notin ReturnedIDs

\* the result of the same search with the empty term
EmptyTermResult ==
    IF last.op = "searchBoardsForUserInTeam"
    THEN searchBoardsForUserInTeam(boards, board_members, last.id, <<>>, last.user)
    ELSE searchBoardsForUser(boards, board_members, <<>>, last.field, last.user,
                             last.includePublicBoards)

\* the tokens of a term when any run of whitespace separates two tokens:
\* the longest pieces of the term without a whitespace character
WhitespaceTokens(term) ==
    {SubSeq(term, i, j) : <<i, j>> \in
        {p \in (1..Len(term)) \X (1..Len(term)) :
            /\ p[1] <= p[2]
            /\ \A k \in p[1]..p[2] : ~IsSpace(term[k])
            /\ p[1] = 1 \/ IsSpace(term[p[1] - 1])
            /\ p[2] = Len(term) \/ IsSpace(term[p[2] + 1])}}

\* is the token a substring of the title, letter case ignored
ContainsFold(title, token) ==
    \E i \in 1..(Len(Chars(title)) - Len(token) + 1) :
        ToLower(SubSeq(Chars(title), i, i + Len(token) - 1)) = ToLower(token)

\* C15 as stated: with a non-empty term in title mode either search
\* returns exactly the boards of its empty-term result whose title contains
\* every token of the term as a substring, letter case ignored, the tokens
\* being the pieces of the term between runs of whitespace.
C15_TermFiltersByWhitespaceTokens ==
    (/\ last.op \in {"searchBoardsForUserInTeam", "searchBoardsForUser"}
     /\ last.field = BoardSearchFieldTitle
     /\ Len(last.term) # 0) =>
        ReturnedIDs =
            {EmptyTermResult[i].id : i \in
                {k \in 1..Len(EmptyTermResult) :
                    \A token \in WhitespaceTokens(last.term) :
                        ContainsFold(EmptyTermResult[k].title, token)}}

----------------------------------------------------------------------------
(* Claims about the text of the searches, checked under SpecQuery *)

\* the places of the placeholders in a text, "?" or $k, in text order
PlaceholderPlaces(sql) ==
    SelectSeq([i \in 1..Len(sql) |-> i],
              LAMBDA i : \/ sql[i] = "?"
                         \/ \E k \in 1..Len(sql) : sql[i] = "$" \o ToString(k))

\* the nesting depth of the branch parentheses after the first n tokens:
\* ( and UNION ( open one, ) closes one, ) UNION ( closes one and opens one
BranchDepth(sql, n) ==
    Cardinality({i \in 1..n : sql[i] \in {"(", " UNION ("}})
        - Cardinality({i \in 1..n : sql[i] = ")"})

\* no parenthesis closes what is not open, ) UNION ( stands between two
\* branches, UNION ( after a closed one, and at the end all are closed
BranchesBalanced(sql) ==
    /\ \A i \in 1..Len(sql) :
         /\ BranchDepth(sql, i) >= 0
         /\ sql[i] = ") UNION (" => BranchDepth(sql, i) = 1
         /\ sql[i] = " UNION (" => BranchDepth(sql, i) = 1
    /\ BranchDepth(sql, Len(sql)) = 0

\* the argument the placeholder at place i of the text of the call stands
\* for, read off the column in front of it; for a LIKE it is the pattern
\* of the word with the number the LIKE has in its branch
BoundAt(call, i) ==
    LET column == call.sql[i - 1]
        branch == CHOOSE j \in 1..i :
                      call.sql[j] = "SELECT"
                          /\ \A k \in (j + 1)..i : call.sql[k] # "SELECT"
        nth == Cardinality({j \in branch..i : call.sql[j] = "lower(b.title) LIKE"})
    IN  CASE column = "b.is_template =" -> "false"
          [] column = "b.team_id =" -> call.id
          [] column = "b.type =" -> BoardTypeOpen
          [] column \in {"bm.user_id =", "cm.userId =", "tm.userID ="} -> call.user
          [] column = "tm.deleteAt =" -> "0"
          [] column = "b.properties->" -> Str(call.term)
          [] column = "JSON_EXTRACT(b.properties," -> "$." \o Str(call.term)
          [] column = "lower(b.title) LIKE" ->
                 "%" \o Str(ToLower(titleWords(call.term)[nth])) \o "%"
          [] OTHER -> "no such column"

\* C25: for both searches, every dialect, term, search field, guest status
\* and includePublicBoards, the text sent to the database has as many
\* placeholders as arguments; the k-th placeholder of the text is bound to
\* the k-th argument, which is the argument of the condition the
\* placeholder stands in; on Postgres and SQLite the placeholders are $1,
\* $2, ... $n in text order over the whole union, on MySQL all "?"; and
\* when the union has two or more branches each branch is in parentheses.
C25_PlaceholdersMatchArguments ==
    last.op \in {"searchBoardsForUserInTeam", "searchBoardsForUser"} =>
        LET places == PlaceholderPlaces(last.sql)
            selects == {i \in 1..Len(last.sql) : last.sql[i] = "SELECT"}
        IN  /\ Len(places) = Len(last.args)
            /\ \A k \in 1..Len(places) :
                 /\ last.sql[places[k]] =
                        IF last.dbType \in {PostgresDBType, SqliteDBType}
                        THEN "$" \o ToString(k) ELSE "?"
                 /\ k <= Len(last.args) => last.args[k] = BoundAt(last, places[k])
            /\ BranchesBalanced(last.sql)
            /\ Cardinality(selects) >= 2 =>
                 \A i \in selects : BranchDepth(last.sql, i) = 1

\* C25 witness: on Postgres, a user that is no guest searches titles for
\* two words with the public boards: three branches of two LIKEs each,
\* fourteen placeholders
C25_Witness ==
    /\ last.op = "searchBoardsForUser"
    /\ last.dbType = PostgresDBType
    /\ last.user \notin guests
    /\ last.includePublicBoards
    /\ last.field = BoardSearchFieldTitle
    /\ Len(titleWords(last.term)) = 2
    /\ Cardinality({i \in 1..Len(last.sql) : last.sql[i] = "SELECT"}) = 3
    /\ Len(last.args) = 14
    /\ \E i \in 1..Len(last.sql) : last.sql[i] = "$14"

----------------------------------------------------------------------------
(* Claims about the membership writes, checked under SpecMember *)

\* the actions of the entries of one pair in board_members_history, in
\* insertion order
ActionsOf(hist, boardID, userID) ==
    LET mine == SelectSeq(hist, LAMBDA e : e.boardID = boardID /\ e.userID = userID)
    IN  [i \in 1..Len(mine) |-> mine[i].action]

\* "created", "deleted", "created", ... starting with "created"
Alternates(actions) ==
    \A i \in 1..Len(actions) :
        actions[i] = IF i % 2 = 1 THEN "created" ELSE "deleted"

\* C21: after any sequence of saveMember, deleteMember and
\* insertBoardWithAdmin calls, whatever the channel roster, the entries of
\* each (board, user) pair in board_members_history alternate "created",
\* "deleted", "created", ... starting with "created", and the pair has a
\* stored row exactly when its newest entry is "created".
C21_MemberHistoryAlternates ==
    \A r \in board_members \cup
              {[boardID |-> e.boardID, userID |-> e.userID] :
                   e \in {board_members_history[i] :
                              i \in 1..Len(board_members_history)}} :
        LET actions == ActionsOf(board_members_history, r.boardID, r.userID)
        IN  /\ Alternates(actions)
            /\ HasRow(r.boardID, r.userID)
                  <=> (actions # <<>> /\ actions[Len(actions)] = "created")


\* C4: a saveMember for a pair without a stored row appends exactly one
\* "created" entry to board_members_history, whatever the user's guest
\* status and channel and team memberships; a saveMember for a pair with a
\* stored row appends nothing and overwrites the four capability flags of
\* the row.
C4_FirstSaveWritesCreated ==
    [][(last'.op = "saveMember") =>
         IF ~HasRow(last'.id, last'.user)
         THEN board_members_history' =
                  Append(board_members_history,
                         MemberHistoryEntry(last'.id, last'.user, "created"))
         ELSE /\ board_members_history' = board_members_history
              /\ FlagsOf(StoredRow(board_members', last'.id, last'.user))
                     = last'.flags]_vars

\* C5: deleteMember succeeds; for a pair with a stored row it deletes that
\* row and appends exactly one "deleted" entry to board_members_history;
\* for a pair without one (also one that has a synthetic membership) it
\* appends nothing and changes no table.
C5_RemoveWritesDeleted ==
    [][(last'.op = "deleteMember") =>
         /\ last'.res = Ok
         /\ IF HasRow(last'.id, last'.user)
            THEN /\ board_members' = board_members \
                        {StoredRow(board_members, last'.id, last'.user)}
                 /\ board_members_history' =
                        Append(board_members_history,
                               MemberHistoryEntry(last'.id, last'.user, "deleted"))
            ELSE UNCHANGED <<board_members, board_members_history>>
         /\ UNCHANGED <<boards, boards_history, children, rosters>>]_vars

\* C5 witness: a deleteMember has removed the stored row of a pair, and
\* another pair still has its row
C5_Witness ==
    /\ last.op = "deleteMember"
    /\ ~HasRow(last.id, last.user)
    /\ board_members # {}
    /\ Len(board_members_history) > 0
    /\ board_members_history[Len(board_members_history)] =
           MemberHistoryEntry(last.id, last.user, "deleted")

----------------------------------------------------------------------------
(* Claims about concurrent calls, checked under SpecSave and SpecRace *)

\* C23: when two saveMember calls for one pair without a stored row have
\* both returned, however their lookups, upserts and history inserts were
\* interleaved, board_members has exactly one row of the pair and
\* board_members_history exactly one "created" entry of the pair.
C23_ConcurrentSavesCreateOnce ==
    (/\ last.op = "saveMember"
     /\ last.res = Pending
     /\ \A c \in Callers : last.calls[c].step = 3)
    => /\ Cardinality({r \in board_members :
                          r.boardID = last.id /\ r.userID = last.user}) = 1
       /\ ActionsOf(board_members_history, last.id, last.user) = <<"created">>

\* C24: when an insertBoard (also one made by patchBoard) and a
\* deleteBoardAndChildren of one existing board have both returned,
\* however their statements were interleaved, the board has a live row
\* exactly when its newest snapshot has deleteAt = 0.
C24_ConcurrentWriteDeleteKeepsUndelete ==
    (/\ last.op = "insertBoard, deleteBoard"
     /\ last.ins = 3
     /\ last.del = Len(deleteStatements) + 1)
    => (getBoard(boards, last.id) # NoBoard
           <=> NewestSnapshot(boards_history, last.id).deleteAt = 0)


----------------------------------------------------------------------------
(* Claims about the two listings side by side, checked under SpecResolve *)

\* what a listing holds for one pair
EntriesFor(out, boardID, userID) ==
    {Grant(out[i]) : i \in {j \in DOMAIN out :
                              out[j].boardID = boardID /\ out[j].userID = userID}}

\* the listing of a board and the listing of a user hold the same for the
\* pair: both nothing, or both one entry with the same capability flags
\* and the same synthetic flag
SameEntry(forBoard, forUser, boardID, userID) ==
    /\ EntriesFor(forBoard, boardID, userID) = EntriesFor(forUser, boardID, userID)
    /\ Cardinality(EntriesFor(forBoard, boardID, userID)) <= 1

\* C27: for every live board b and every user u that is no bot,
\* getMembersForBoard(b) has an entry for u exactly when
\* getMembersForUser(u) has an entry for b, and the two entries have the
\* same capability flags and the same synthetic flag.
C27_ListingsAgree ==
    /\ (last.op = "getMembersForBoard" /\ LiveRow(last.id) # NoBoard) =>
          \A u \in RealUsers \ bots :
              SameEntry(last.out,
                        getMembersForUser(boards, board_members, u), last.id, u)
    /\ (last.op = "getMembersForUser" /\ last.user \notin bots) =>
          \A b \in BoardIDs :
              LiveRow(b) # NoBoard =>
                  SameEntry(getMembersForBoard(boards, board_members, b),
                            last.out, b, last.user)

\* C27 witness: the listing of a live board linked to a channel holds a
\* synthetic entry for a member of the channel, as the listing of that
\* user does for the board, and no entry for a guest of the channel
\* without a stored row, as the listing of the guest has none for the
\* board
C27_Witness ==
    /\ last.op = "getMembersForBoard"
    /\ LiveRow(last.id) # NoBoard
    /\ \E u, g \in RealUsers \ bots :
          /\ EditorGrant(last.id, u) \in EntriesFor(last.out, last.id, u)
          /\ EditorGrant(last.id, u) \in
                EntriesFor(getMembersForUser(boards, board_members, u), last.id, u)
          /\ g \in guests
          /\ <<LiveRow(last.id).channelID, g>> \in channelMembers
          /\ EntriesFor(last.out, last.id, g) = {}
          /\ EntriesFor(getMembersForUser(boards, board_members, g), last.id, g) = {}

----------------------------------------------------------------------------
(* Claims about the minimum role of returned members, checked under SpecRole *)

\* C26: every member returned by getMemberForBoard, getMembersForUser or
\* getMembersForBoard, stored or synthetic, carries the minimumRole of the
\* live board it refers to.
C26_MinimumRoleEchoed ==
    \A m \in Returned :
        LiveRow(m.boardID) # NoBoard =>
            m.minimumRole = LiveRow(m.boardID).minimumRole


----------------------------------------------------------------------------
(* Claims about the boards of a user in a team, checked under SpecTeam *)

\* C28: every board getBoardsForUserAndTeam returns with
\* includePublicBoards = FALSE is also returned with includePublicBoards =
\* TRUE for the same user and team in the same state.
C28_MonotoneInPublicBoards ==
    (last.op = "getBoardsForUserAndTeam" /\ ~last.includePublicBoards) =>
        LET withPublic == getBoardsForUserAndTeam(boards, board_members,
                                                  last.user, last.id, TRUE)
        IN  \A i \in DOMAIN last.out :
                \E j \in DOMAIN withPublic : withPublic[j].id = last.out[i].id

====
